---- MODULE Spec2Model ----
(***************************************************************************)
(* A model of the epub package (github.com/writingtoole/epub): the EPub    *)
(* document, the operations that build it and the two serializers          *)
(* (SerializeV2 in src/unnamed/part_000, SerializeV3 in src/v3.go).        *)
(*                                                                         *)
(* The document is the record e, whose fields carry the names of the Go    *)
(* struct EPub (src/unnamed/part_001:55-73, plus the seriesName, setName   *)
(* and entry fields used by src/metadata.go:148-182).  Navpoint objects    *)
(* live behind pointers; heap maps a pointer (the allocation index) to the *)
(* Navpoint it points to.  ret is what the last call returned to its       *)
(* caller.  calls is a history variable: the SetSeries and SetSet calls     *)
(* made on the document so far, each with its argument, the error it       *)
(* returned and the name it left in the field it sets.                     *)
(***************************************************************************)
EXTENDS Integers, Sequences, FiniteSets, TLC

VARIABLES e, heap, ret, calls

vars == <<e, heap, ret, calls>>

(***************************************************************************)
(* Bounds of the model.                                                    *)
(***************************************************************************)
\* text documents added in the spine specification
MaxXhtml == 3
\* records per resource collection in the archive specification
MaxPerClass == 1
\* Navpoint objects allocated in the navigation specification
MaxNav == 3
\* length of the string handed to SetEntryNumber
MaxLen == 3
\* SetSeries and SetSet calls made on one document
MaxCalls == 3
MaxMeta == 3
MaxRecords == 3
MaxDocs == 3
MaxImages == 2

(***************************************************************************)
(* Generic helpers.                                                        *)
(***************************************************************************)
Range(s) == { s[i] : i \in DOMAIN s }

RECURSIVE Flatten(_)
Flatten(ss) == IF ss = <<>> THEN <<>> ELSE Head(ss) \o Flatten(Tail(ss))

(***************************************************************************)
(* sort.Slice(x, less).  The sort package promises a permutation of x that *)
(* is ordered by less and nothing more ("The sort is not guaranteed to be  *)
(* stable: equal elements may be reversed from their original order"), so  *)
(* the result is any such permutation.  The slice header passed in shares  *)
(* its array with the caller's slice: the caller's slice is the result.    *)
(* less is given as the pairs <<i, j>> of indices of s whose elements the  *)
(* less function orders, s[i] before s[j].                                 *)
(***************************************************************************)
SortSlice(s, less) ==
    LET n == Len(s)
    IN  { [i \in 1..n |-> s[p[i]]] :
            p \in { q \in Permutations(1..n) :
                      \A i, j \in 1..n : i < j => <<q[j], q[i]>> \notin less } }

(***************************************************************************)
(* The values the operations are called with.                              *)
(***************************************************************************)
\* uuid.NewV4() in New
NewUUIDs == {"0d4c5f2e"}

\* Contents of a text document, as the sequence of its markup tokens.
XmlDecl == "<?xml version=\"1.0\"?>"
DoctypeV2 == "<!DOCTYPE html PUBLIC \"-//W3C//DTD XHTML 1.1//EN\">"
DoctypeV3 == "<!DOCTYPE html>"
Newline == "\n"
Markup == "<html/>"
LegacyDoc == <<XmlDecl, Newline, DoctypeV2, Newline, Markup>>
PlainDoc == <<Markup>>

\* The variadic order argument of AddXHTML: none, one or two values.
OrderArgs == {<<>>, <<1>>, <<5>>, <<1, 5>>}

\* A path is the sequence of its pieces, the last one the file extension:
\* <<"fonts/f", ".otf">> is the path "fonts/f.otf".
XhtmlPath == <<"xhtml/a", ".xhtml">>
ImagePath == <<"images/c", ".png">>
StylePath == <<"css/s", ".css">>
ScriptPath == <<"js/j", ".js">>
FontPaths == {<<"fonts/f", ".otf">>, <<"fonts/f", ".ttf">>}

\* Image contents and what image.DecodeConfig makes of them.
ImageContents == {"PNG-bytes", "junk-bytes"}

(***************************************************************************)
(* New (src/unnamed/part_001:140-154).                                     *)
(***************************************************************************)
New(u) ==
    LET uuid == "urn:uuid:" \o u
    IN  [ version    |-> 2,
          metadata   |-> << [ kind  |-> "dc:identifier",
                              value |-> uuid,
                              pairs |-> << [ key |-> "id", v2prefix |-> "",
                                             v3prefix |-> "", value |-> "BookId",
                                             scheme |-> "" ] >> ] >>,
          images     |-> <<>>,
          xhtml      |-> <<>>,
          navpoints  |-> <<>>,
          styles     |-> <<>>,
          scripts    |-> <<>>,
          fonts      |-> <<>>,
          lastId     |-> <<>>,
          uuid       |-> uuid,
          title      |-> "",
          authors    |-> <<>>,
          artists    |-> <<>>,
          fixV2XHTML |-> TRUE,
          coverID    |-> "",
          seriesName |-> "",
          setName    |-> "",
          entry      |-> <<>> ]

\* What a call hands back: the error ("" is nil), the Id of an Add call and
\* the byte slice of a serializer, as the sequence of the archive's entries.
\* np is the *Navpoint of an AddNavpoint call (0 is no pointer).
Returned(op, args, err, id, buf) ==
    [op |-> op, args |-> args, err |-> err, id |-> id, buf |-> buf, np |-> 0]

Init ==
    /\ e \in { New(u) : u \in NewUUIDs }
    /\ heap = <<>>
    /\ ret = Returned("New", <<>>, "", "", <<>>)
    /\ calls = <<>>

(***************************************************************************)
(* nextId (src/unnamed/part_001:193-200).  lastId is a Go map: a function  *)
(* on the classes it holds, and a missing class reads as 0.                *)
(***************************************************************************)
\* nextId without the store of line 198: the counter is never kept.
nextId_NoStore(lastId, class) ==
    LET last == (IF class \in DOMAIN lastId THEN lastId[class] ELSE 0) + 1
    IN  [ lastId |-> lastId, id |-> class \o ToString(last) ]

nextId(lastId, class) ==
    LET last == (IF class \in DOMAIN lastId THEN lastId[class] ELSE 0) + 1
    IN  [ lastId |-> [c \in DOMAIN lastId \cup {class} |->
                        IF c = class THEN last ELSE lastId[c]],
          id     |-> class \o ToString(last) ]

(***************************************************************************)
(* AddXHTML (src/unnamed/part_001:296-313).                                *)
(***************************************************************************)
\* AddXHTML that takes the first of several order values.
AddXHTML_FirstOrder(path, contents, order) ==
    /\ LET o == IF Len(order) >= 1 THEN order[1] ELSE 0
           n == nextId(e.lastId, "xhtml")
           x == [ name      |-> path,
                  contents  |-> contents,
                  id        |-> n.id,
                  order     |-> o,
                  baseOrder |-> Len(e.xhtml) ]
       IN  /\ e' = [e EXCEPT !.lastId = n.lastId,
                             !.xhtml = Append(e.xhtml, x)]
           /\ ret' = Returned("AddXHTML", <<path, contents, order>>,
                              "", x.id, <<>>)
    /\ UNCHANGED <<heap, calls>>

\* The Document, the error and the Id after e.AddXHTML(path, contents,
\* order...) on ep; AddXHTMLFile hands them on.
AddXHTMLOn(ep, path, contents, order) ==
    IF Len(order) > 1
    THEN [e |-> ep, err |-> "Too many order parameters given", id |-> ""]
    ELSE LET o == IF Len(order) = 1 THEN order[1] ELSE 0
             n == nextId(ep.lastId, "xhtml")
             x == [ name      |-> path,
                    contents  |-> contents,
                    id        |-> n.id,
                    order     |-> o,
                    baseOrder |-> Len(ep.xhtml) ]
         IN  [ e   |-> [ep EXCEPT !.lastId = n.lastId,
                                  !.xhtml = Append(ep.xhtml, x)],
               err |-> "",
               id  |-> x.id ]

AddXHTML(path, contents, order) ==
    /\ LET r == AddXHTMLOn(e, path, contents, order)
       IN  /\ e' = r.e
           /\ ret' = Returned("AddXHTML", <<path, contents, order>>,
                              r.err, r.id, <<>>)
    /\ UNCHANGED <<heap, calls>>

(***************************************************************************)
(* AddImage (src/unnamed/part_001:209-219).  image.DecodeConfig sniffs the *)
(* format from the contents and fails on contents it does not know.        *)
(***************************************************************************)
DecodeConfig(contents) ==
    IF contents = "PNG-bytes" THEN [fmt |-> "png", err |-> ""]
    ELSE [fmt |-> "", err |-> "image: unknown format"]

\* AddImage that takes the identifier before it looks at the contents.
AddImageOn_CountFirst(ep, path, contents) ==
    LET d == DecodeConfig(contents)
        n == nextId(ep.lastId, "img")
        i == [ name |-> path, filetype |-> d.fmt,
               contents |-> contents, id |-> n.id ]
    IN  IF d.err # ""
        THEN [e |-> [ep EXCEPT !.lastId = n.lastId], err |-> d.err, id |-> ""]
        ELSE [ e   |-> [ep EXCEPT !.lastId = n.lastId,
                                  !.images = Append(ep.images, i)],
               err |-> "",
               id  |-> i.id ]

AddImageOn(ep, path, contents) ==
    LET d == DecodeConfig(contents)
    IN  IF d.err # ""
        THEN [e |-> ep, err |-> d.err, id |-> ""]
        ELSE LET n == nextId(ep.lastId, "img")
                 i == [ name |-> path, filetype |-> d.fmt,
                        contents |-> contents, id |-> n.id ]
             IN  [ e   |-> [ep EXCEPT !.lastId = n.lastId,
                                      !.images = Append(ep.images, i)],
                   err |-> "",
                   id  |-> i.id ]

AddImage(path, contents) ==
    /\ LET r == AddImageOn(e, path, contents)
       IN  /\ e' = r.e
           /\ ret' = Returned("AddImage", <<path, contents>>, r.err, r.id, <<>>)
    /\ UNCHANGED <<heap, calls>>

(***************************************************************************)
(* AddJavaScript (src/unnamed/part_001:240-244).                           *)
(***************************************************************************)
AddJavaScriptOn(ep, path, contents) ==
    LET n == nextId(ep.lastId, "js")
        j == [name |-> path, contents |-> contents, id |-> n.id]
    IN  [ e   |-> [ep EXCEPT !.lastId = n.lastId,
                             !.scripts = Append(ep.scripts, j)],
          err |-> "",
          id  |-> j.id ]

AddJavaScript(path, contents) ==
    /\ LET r == AddJavaScriptOn(e, path, contents)
       IN  /\ e' = r.e
           /\ ret' = Returned("AddJavaScript", <<path, contents>>, r.err, r.id, <<>>)
    /\ UNCHANGED <<heap, calls>>

(***************************************************************************)
(* AddFont (src/unnamed/part_001:264-272).                                 *)
(***************************************************************************)
HasSuffix(path, suffix) == Len(path) > 0 /\ path[Len(path)] = suffix

AddFontOn(ep, path, contents) ==
    IF ~HasSuffix(path, ".otf")
    THEN [e |-> ep, err |-> "Only opentype fonts are supported", id |-> ""]
    ELSE LET n == nextId(ep.lastId, "font")
             f == [name |-> path, contents |-> contents, id |-> n.id]
         IN  [ e   |-> [ep EXCEPT !.lastId = n.lastId,
                                  !.fonts = Append(ep.fonts, f)],
               err |-> "",
               id  |-> f.id ]

AddFont(path, contents) ==
    /\ LET r == AddFontOn(e, path, contents)
       IN  /\ e' = r.e
           /\ ret' = Returned("AddFont", <<path, contents>>, r.err, r.id, <<>>)
    /\ UNCHANGED <<heap, calls>>

(***************************************************************************)
(* AddStylesheet (src/unnamed/part_001:375-379).                           *)
(***************************************************************************)
\* AddStylesheet that overwrites the stylesheet of the same path.
AddStylesheet_Replace(path, contents) ==
    /\ LET n == nextId(e.lastId, "css")
           s == [name |-> path, contents |-> contents, id |-> n.id]
           same == { i \in 1..Len(e.styles) : e.styles[i].name = path }
       IN  /\ e' = [e EXCEPT !.lastId = n.lastId,
                             !.styles = IF same = {} THEN Append(e.styles, s)
                                        ELSE [i \in 1..Len(e.styles) |->
                                                IF i \in same THEN s
                                                ELSE e.styles[i]]]
           /\ ret' = Returned("AddStylesheet", <<path, contents>>, "", s.id, <<>>)
    /\ UNCHANGED <<heap, calls>>

AddStylesheetOn(ep, path, contents) ==
    LET n == nextId(ep.lastId, "css")
        s == [name |-> path, contents |-> contents, id |-> n.id]
    IN  [ e   |-> [ep EXCEPT !.lastId = n.lastId,
                             !.styles = Append(ep.styles, s)],
          err |-> "",
          id  |-> s.id ]

AddStylesheet(path, contents) ==
    /\ LET r == AddStylesheetOn(e, path, contents)
       IN  /\ e' = r.e
           /\ ret' = Returned("AddStylesheet", <<path, contents>>, r.err, r.id, <<>>)
    /\ UNCHANGED <<heap, calls>>

(***************************************************************************)
(* The *File variants (src/unnamed/part_001:227-233, 252-258, 279-285,     *)
(* 321-327, 384-391): ioutil.ReadFile of the source, whose error is        *)
(* returned as it is, and then the Add call of the class.  Disk is what    *)
(* the file system holds; a source it does not hold cannot be read.        *)
(***************************************************************************)
Disk ==
    [ cover  |-> "PNG-bytes",
      notes  |-> "junk-bytes",
      page   |-> <<"<html/>">>,
      style  |-> "body {}",
      script |-> "void 0;",
      font   |-> "OTTO-bytes" ]

ReadFile(source) ==
    IF source \in DOMAIN Disk THEN [c |-> Disk[source], err |-> ""]
    ELSE [c |-> "", err |-> "open " \o source \o ": no such file or directory"]

\* What a *File call hands back: the error of ReadFile, or what the Add
\* call r of the class handed back.
FileResult(op, source, dest, c, r) ==
    /\ IF c.err # ""
       THEN /\ e' = e
            /\ ret' = Returned(op, <<source, dest>>, c.err, "", <<>>)
       ELSE /\ e' = r.e
            /\ ret' = Returned(op, <<source, dest>>, r.err, r.id, <<>>)
    /\ UNCHANGED <<heap, calls>>

AddImageFile(source, dest) ==
    LET c == ReadFile(source)
    IN  FileResult("AddImageFile", source, dest, c, AddImageOn(e, dest, c.c))

AddJavaScriptFile(source, dest) ==
    LET c == ReadFile(source)
    IN  FileResult("AddJavaScriptFile", source, dest, c,
                   AddJavaScriptOn(e, dest, c.c))

AddFontFile(source, dest) ==
    LET c == ReadFile(source)
    IN  FileResult("AddFontFile", source, dest, c, AddFontOn(e, dest, c.c))

AddXHTMLFile(source, dest, order) ==
    LET c == ReadFile(source)
    IN  FileResult("AddXHTMLFile", source, dest, c,
                   AddXHTMLOn(e, dest, c.c, order))

AddStylesheetFile(source, dest) ==
    LET c == ReadFile(source)
    IN  FileResult("AddStylesheetFile", source, dest, c,
                   AddStylesheetOn(e, dest, c.c))

(***************************************************************************)
(* EPub.AddNavpoint (src/unnamed/part_001:351-355) and Navpoint.AddNavpoint*)
(* (src/unnamed/part_001:366-370).  &Navpoint{...} allocates: the new      *)
(* pointer is the next index of heap.                                      *)
(***************************************************************************)
Navpoint(label, name, order) ==
    [label |-> label, filename |-> name, order |-> order, navpoints |-> <<>>]

AddNavpoint(label, name, order) ==
    /\ LET n == Len(heap) + 1
       IN  /\ heap' = Append(heap, Navpoint(label, name, order))
           /\ e' = [e EXCEPT !.navpoints = Append(e.navpoints, n)]
           /\ ret' = [Returned("AddNavpoint", <<label, name, order>>, "", "", <<>>)
                        EXCEPT !.np = n]
    /\ UNCHANGED calls

\* Navpoint.AddNavpoint that hangs the new node under the Document as well.
NavpointAddNavpoint_AlsoRoot(n, label, name, order) ==
    /\ n \in DOMAIN heap
    /\ LET nn == Len(heap) + 1
       IN  /\ heap' = Append([heap EXCEPT ![n].navpoints = Append(@, nn)],
                             Navpoint(label, name, order))
           /\ e' = [e EXCEPT !.navpoints = Append(@, nn)]
           /\ ret' = [Returned("Navpoint.AddNavpoint", <<n, label, name, order>>,
                               "", "", <<>>) EXCEPT !.np = nn]
    /\ UNCHANGED calls

NavpointAddNavpoint(n, label, name, order) ==
    /\ n \in DOMAIN heap
    /\ LET nn == Len(heap) + 1
       IN  /\ heap' = Append([heap EXCEPT ![n].navpoints = Append(@, nn)],
                             Navpoint(label, name, order))
           /\ ret' = [Returned("Navpoint.AddNavpoint", <<n, label, name, order>>,
                               "", "", <<>>) EXCEPT !.np = nn]
    /\ UNCHANGED <<e, calls>>

(***************************************************************************)
(* The archive: zip.Writer.Create compresses the entry with Deflate,       *)
(* CreateHeader takes the method of the header it is given.  An entry is   *)
(* its name, its method and what was written to it.                        *)
(***************************************************************************)
Create(name, body) == [name |-> name, method |-> "Deflate", body |-> body]

CreateHeader(name, method, body) == [name |-> name, method |-> method, body |-> body]

\* What archive/zip refuses.  Create fails on a name of more than 65535
\* bytes, which a path holds as the piece LongName; the writer of an entry
\* whose name ends in "/" is that of a directory, and its Write fails unless
\* it is given nothing to write.  The archive is written to a bytes.Buffer,
\* whose Write does not fail.
LongName == "<a name of 65536 bytes>"

CreateError(name) ==
    IF LongName \in Range(name) THEN "zip: FileHeader.Name too long" ELSE ""

WriteError(name, contents) ==
    IF HasSuffix(name, "/") /\ Len(contents) > 0 THEN "zip: write to directory"
    ELSE ""

\* The error the resource loops return: that of the first entry whose
\* Create or Write fails (src/unnamed/part_000:59-116, src/v3.go:58-116).
\* The loops that do not check Write.
ResourceError_CreateOnly(entries) ==
    LET failed == { i \in 1..Len(entries) : CreateError(entries[i].name) # "" }
    IN  IF failed = {} THEN ""
        ELSE CreateError(entries[CHOOSE i \in failed :
                                     \A j \in failed : i <= j].name)

ResourceError(entries) ==
    LET failed == { i \in 1..Len(entries) :
                      \/ CreateError(entries[i].name) # ""
                      \/ WriteError(entries[i].name, entries[i].body) # "" }
        first  == entries[CHOOSE i \in failed : \A j \in failed : i <= j]
    IN  IF failed = {} THEN ""
        ELSE IF CreateError(first.name) # "" THEN CreateError(first.name)
        ELSE "unable to write: " \o WriteError(first.name, first.body)

\* "OPS/" + i.name and the write of the contents, one resource loop of
\* SerializeV2 (src/unnamed/part_000:59-116).
WriteResources(rs) ==
    [i \in 1..Len(rs) |-> Create(<<"OPS/">> \o rs[i].name, rs[i].contents)]

(***************************************************************************)
(* addMetadata (src/unnamed/part_000:199-219).                             *)
(***************************************************************************)
\* addMetadata with the series written as addV3Metadata writes it.
addMetadata_WithSeries(ep) ==
    [i \in 1..Len(ep.metadata) |->
        LET m == ep.metadata[i]
        IN  [ tag   |-> m.kind,
              attrs |-> [j \in 1..Len(m.pairs) |->
                           [ name  |-> m.pairs[j].v2prefix \o m.pairs[j].key,
                             value |-> m.pairs[j].value ]],
              form  |-> IF m.value # "" THEN "container" ELSE "standalone",
              text  |-> m.value ]]
    \o (IF ep.seriesName # ""
        THEN << [ tag |-> "meta", attrs |-> <<>>, form |-> "container",
                  text |-> ep.seriesName ] >>
        ELSE <<>>)

addMetadata(ep) ==
    [i \in 1..Len(ep.metadata) |->
        LET m == ep.metadata[i]
        IN  [ tag   |-> m.kind,
              attrs |-> [j \in 1..Len(m.pairs) |->
                           [ name  |-> m.pairs[j].v2prefix \o m.pairs[j].key,
                             value |-> m.pairs[j].value ]],
              form  |-> IF m.value # "" THEN "container" ELSE "standalone",
              text  |-> m.value ]]

(***************************************************************************)
(* addManifest (src/unnamed/part_000:159-182).                             *)
(***************************************************************************)
Item(id, href, mediaType, properties) ==
    [id |-> id, href |-> href, mediaType |-> mediaType, properties |-> properties]

\* addManifest without the loop over the text documents.
addManifest_NoXhtml(ep) ==
    << Item("ncx", <<"toc.ncx">>, "application/x-dtbncx+xml", "") >>
    \o [i \in 1..Len(ep.images) |->
          Item(ep.images[i].id, ep.images[i].name,
               "image/" \o ep.images[i].filetype, "")]
    \o [i \in 1..Len(ep.styles) |->
          Item(ep.styles[i].id, ep.styles[i].name, "text/css", "")]
    \o [i \in 1..Len(ep.scripts) |->
          Item(ep.scripts[i].id, ep.scripts[i].name, "application/javascript", "")]
    \o [i \in 1..Len(ep.fonts) |->
          Item(ep.fonts[i].id, ep.fonts[i].name, "application/opentype", "")]

addManifest(ep) ==
    << Item("ncx", <<"toc.ncx">>, "application/x-dtbncx+xml", "") >>
    \o [i \in 1..Len(ep.images) |->
          Item(ep.images[i].id, ep.images[i].name,
               "image/" \o ep.images[i].filetype, "")]
    \o [i \in 1..Len(ep.xhtml) |->
          Item(ep.xhtml[i].id, ep.xhtml[i].name, "application/xhtml+xml", "")]
    \o [i \in 1..Len(ep.styles) |->
          Item(ep.styles[i].id, ep.styles[i].name, "text/css", "")]
    \o [i \in 1..Len(ep.scripts) |->
          Item(ep.scripts[i].id, ep.scripts[i].name, "application/javascript", "")]
    \o [i \in 1..Len(ep.fonts) |->
          Item(ep.fonts[i].id, ep.fonts[i].name, "application/opentype", "")]

(***************************************************************************)
(* addSpine (src/unnamed/part_000:184-196).  x := e.xhtml copies the slice *)
(* header, not the array: sort.Slice(x, ...) reorders e.xhtml itself.      *)
(* xhtmlLess is the less function of lines 187-189; addSpine gives the     *)
(* spines the call can write, each with the order it leaves e.xhtml in.    *)
(***************************************************************************)
\* The less function without its tie-break on baseOrder.
xhtmlLess_NoTieBreak(a, b) == a.order < b.order

\* The order of the calls alone.
xhtmlLess_ByInsertion(a, b) == a.baseOrder < b.baseOrder

xhtmlLess(a, b) ==
    a.order < b.order \/ (a.order = b.order /\ a.baseOrder < b.baseOrder)

xhtmlPairs(x) ==
    { ij \in (1..Len(x)) \X (1..Len(x)) : xhtmlLess(x[ij[1]], x[ij[2]]) }

addSpine(ep) ==
    { [ xhtml |-> x, spine |-> [i \in 1..Len(x) |-> x[i].id] ] :
        x \in SortSlice(ep.xhtml, xhtmlPairs(ep.xhtml)) }

(***************************************************************************)
(* writeNavpoints (src/unnamed/part_000:277-294).  The sort.Slice call of  *)
(* line 278 reorders the list it is given, which is the root list of the   *)
(* document or the child list of a Navpoint: SortNavpoints gives the       *)
(* outcomes of all the sorts of one walk (the root list and every          *)
(* non-empty child list, line 288), writeNavpoints what the walk writes    *)
(* over the lists so sorted.  A navPoint element is written as its opening *)
(* tag (with the pointer of the Navpoint it renders) and its closing tag.  *)
(***************************************************************************)
navpointLess(a, b) == a.order < b.order

navpointPairs(np, h) ==
    { ij \in (1..Len(np)) \X (1..Len(np)) :
        navpointLess(h[np[ij[1]]], h[np[ij[2]]]) }

RECURSIVE SortChildLists(_, _)
SortChildLists(todo, h) ==
    IF todo = <<>> THEN {h}
    ELSE LET n == Head(todo)
         IN  IF Len(h[n].navpoints) = 0
             THEN SortChildLists(Tail(todo), h)
             ELSE UNION { SortChildLists(t \o Tail(todo),
                                         [h EXCEPT ![n].navpoints = t]) :
                            t \in SortSlice(h[n].navpoints,
                                            navpointPairs(h[n].navpoints, h)) }

SortNavpoints(np, h) ==
    UNION { { [navpoints |-> t, heap |-> h2] : h2 \in SortChildLists(t, h) } :
              t \in SortSlice(np, navpointPairs(np, h)) }

RECURSIVE writeNavpoints(_, _, _, _, _)
RECURSIVE writeNavpointsFrom(_, _, _, _, _, _)
RECURSIVE writeNavpointsFrom_DropCount(_, _, _, _, _, _)

\* The walk with the counter a recursive call returns thrown away: the next
\* sibling is numbered as if the node had no children.
writeNavpointsFrom_DropCount(i, np, order, baseID, prefix, h) ==
    IF i >= Len(np) THEN [w |-> <<>>, order |-> order]
    ELSE LET n    == np[i + 1]
             id   == baseID \o "_" \o ToString(i)
             open == [ tag |-> "navPoint", id |-> id, playOrder |-> order,
                       prefix |-> prefix, label |-> h[n].label,
                       src |-> h[n].filename, node |-> n ]
             sub  == IF Len(h[n].navpoints) # 0
                     THEN writeNavpoints(h[n].navpoints, order + 1, id,
                                         prefix \o "  ", h)
                     ELSE [w |-> <<>>, order |-> order + 1]
             rest == writeNavpointsFrom_DropCount(i + 1, np, order + 1, baseID,
                                                  prefix, h)
         IN  [ w     |-> << open >> \o sub.w
                         \o << [tag |-> "/navPoint", prefix |-> prefix] >> \o rest.w,
               order |-> rest.order ]

writeNavpoints(np, order, baseID, prefix, h) ==
    writeNavpointsFrom(0, np, order, baseID, prefix, h)

writeNavpointsFrom(i, np, order, baseID, prefix, h) ==
    IF i >= Len(np) THEN [w |-> <<>>, order |-> order]
    ELSE LET n    == np[i + 1]
             id   == baseID \o "_" \o ToString(i)
             open == [ tag |-> "navPoint", id |-> id, playOrder |-> order,
                       prefix |-> prefix, label |-> h[n].label,
                       src |-> h[n].filename, node |-> n ]
             sub  == IF Len(h[n].navpoints) # 0
                     THEN writeNavpoints(h[n].navpoints, order + 1, id,
                                         prefix \o "  ", h)
                     ELSE [w |-> <<>>, order |-> order + 1]
             rest == writeNavpointsFrom(i + 1, np, sub.order, baseID, prefix, h)
         IN  [ w     |-> << open >> \o sub.w
                         \o << [tag |-> "/navPoint", prefix |-> prefix] >> \o rest.w,
               order |-> rest.order ]

(***************************************************************************)
(* addContent, addToc, addContainer (src/unnamed/part_000:139-157,         *)
(* 222-259, 262-275): what is written to the three generated entries.      *)
(***************************************************************************)
addContent(ep, sp) ==
    Create(<<"OPS/", "content.opf">>,
           [ version  |-> "2.0",
             metadata |-> addMetadata(ep),
             manifest |-> addManifest(ep),
             spine    |-> sp.spine ])

addToc(ep, nv) ==
    Create(<<"OPS/", "toc.ncx">>,
           [ uid       |-> ep.uuid,
             docTitle  |-> ep.title,
             docAuthor |-> ep.authors,
             navMap    |-> writeNavpoints(nv.navpoints, 1, "navpointid", "    ",
                                          nv.heap).w ])

addContainer ==
    Create(<<"META-INF/", "container.xml">>,
           [rootfiles |-> << <<"OPS/", "content.opf">> >>])

(***************************************************************************)
(* SerializeV2 (src/unnamed/part_000:32-136).  The entries are written in  *)
(* the order of the code; the manifest is written before addSpine sorts,   *)
(* the resource entries before either.                                     *)
(***************************************************************************)
ArchiveV2(ep, sp, nv) ==
    << CreateHeader(<<"mimetype">>, "Store", "application/epub+zip") >>
    \o WriteResources(ep.images)
    \o WriteResources(ep.xhtml)
    \o WriteResources(ep.styles)
    \o WriteResources(ep.scripts)
    \o WriteResources(ep.fonts)
    \o << addContent(ep, sp), addToc(ep, nv), addContainer >>

\* The entries of the five resource loops.
ResourcesV2(ep) ==
    WriteResources(ep.images)
    \o WriteResources(ep.xhtml)
    \o WriteResources(ep.styles)
    \o WriteResources(ep.scripts)
    \o WriteResources(ep.fonts)

\* A resource loop that fails returns before addContent and addToc, which
\* hold the two sorts: the Document is left as it was.
SerializeV2 ==
    IF ResourceError(ResourcesV2(e)) # ""
    THEN /\ ret' = Returned("SerializeV2", <<>>, ResourceError(ResourcesV2(e)),
                            "", <<>>)
         /\ UNCHANGED <<e, heap, calls>>
    ELSE \E sp \in addSpine(e) :
         \E nv \in SortNavpoints(e.navpoints, heap) :
             /\ ret' = Returned("SerializeV2", <<>>, "", "", ArchiveV2(e, sp, nv))
             /\ e' = [e EXCEPT !.xhtml = sp.xhtml, !.navpoints = nv.navpoints]
             /\ heap' = nv.heap
             /\ UNCHANGED calls

(***************************************************************************)
(* fixV2XHTML (src/v3.go:297-307): every match of                          *)
(*   ^(?ms)(<\?xml[^>]*>\s*<!DOCTYPE)\b[^>]*>                              *)
(* is replaced by "$1 html>".  The ^ stands before the flag group (?ms),   *)
(* and a flag group of regexp/syntax sets the flags of what follows it:    *)
(* this ^ is the start of the text, not of a line.  On the tokens of a     *)
(* document: an XML declaration at the start of the document, followed     *)
(* after any whitespace by a document-type declaration, has that           *)
(* declaration cut down to <!DOCTYPE html>.                                *)
(***************************************************************************)
IsDoctype(t) == t \in {DoctypeV2, DoctypeV3}

RECURSIVE SkipSpace(_, _)
SkipSpace(c, k) == IF k <= Len(c) /\ c[k] = Newline THEN SkipSpace(c, k + 1) ELSE k

RECURSIVE fixV2XHTMLFrom(_, _)
fixV2XHTMLFrom(c, i) ==
    IF i > Len(c) THEN <<>>
    ELSE LET k == SkipSpace(c, i + 1)
         IN  IF /\ c[i] = XmlDecl
                /\ i = 1
                /\ k <= Len(c)
                /\ IsDoctype(c[k])
             THEN SubSeq(c, i, k - 1) \o <<DoctypeV3>> \o fixV2XHTMLFrom(c, k + 1)
             ELSE <<c[i]>> \o fixV2XHTMLFrom(c, i + 1)

fixV2XHTML(o) == fixV2XHTMLFrom(o, 1)

\* The text-document loop of SerializeV3 (src/v3.go:71-84).
WriteXHTMLV3(ep) ==
    [i \in 1..Len(ep.xhtml) |->
        Create(<<"OPS/">> \o ep.xhtml[i].name,
               IF ep.fixV2XHTML THEN fixV2XHTML(ep.xhtml[i].contents)
               ELSE ep.xhtml[i].contents)]

(***************************************************************************)
(* addV3Metadata (src/v3.go:195-250).  now is time.Now() in the layout of  *)
(* line 232.                                                               *)
(***************************************************************************)
Clock == {"2018-08-01T10:00:00Z", "2018-08-01T10:00:01Z"}

\* V3Entry with one anchor for every entry.
V3Entry_OneAnchor(m, idCount) ==
    IF m.kind = "meta" THEN <<>>
    ELSE IF m.kind = "dc:identifier"
    THEN << [ tag |-> "dc:identifier", id |-> "BookId", form |-> "container",
              text |-> m.value, refines |-> "", property |-> "", scheme |-> "" ] >>
    ELSE << [ tag |-> m.kind, id |-> "id1",
              form |-> IF m.value # "" THEN "container" ELSE "standalone",
              text |-> m.value, refines |-> "", property |-> "", scheme |-> "" ] >>
         \o [j \in 1..Len(m.pairs) |->
               [ tag |-> "meta", id |-> "", form |-> "container",
                 text |-> m.pairs[j].value,
                 refines |-> "#id1",
                 property |-> m.pairs[j].v3prefix \o m.pairs[j].key,
                 scheme |-> m.pairs[j].scheme ]]

V3Entry(m, idCount) ==
    IF m.kind = "meta" THEN <<>>
    ELSE IF m.kind = "dc:identifier"
    THEN << [ tag |-> "dc:identifier", id |-> "BookId", form |-> "container",
              text |-> m.value, refines |-> "", property |-> "", scheme |-> "" ] >>
    ELSE << [ tag |-> m.kind, id |-> "id" \o ToString(idCount),
              form |-> IF m.value # "" THEN "container" ELSE "standalone",
              text |-> m.value, refines |-> "", property |-> "", scheme |-> "" ] >>
         \o [j \in 1..Len(m.pairs) |->
               [ tag |-> "meta", id |-> "", form |-> "container",
                 text |-> m.pairs[j].value,
                 refines |-> "#id" \o ToString(idCount),
                 property |-> m.pairs[j].v3prefix \o m.pairs[j].key,
                 scheme |-> m.pairs[j].scheme ]]

V3Meta(id, refines, property, text) ==
    [ tag |-> "meta", id |-> id, form |-> "container", text |-> text,
      refines |-> refines, property |-> property, scheme |-> "" ]

\* addV3Metadata without the element of line 232.
addV3Metadata_NoTimestamp(ep, now) ==
    Flatten([i \in 1..Len(ep.metadata) |-> V3Entry(ep.metadata[i], i)])

\* addV3Metadata with the entry number written whether or not the book has
\* a series or a set.
addV3Metadata_EntryAlone(ep, now) ==
    LET seenDCTerms == \E i \in 1..Len(ep.metadata) :
                           ep.metadata[i].kind = "dcterms:modified"
    IN  Flatten([i \in 1..Len(ep.metadata) |-> V3Entry(ep.metadata[i], i)])
        \o (IF ~seenDCTerms
            THEN << V3Meta("", "", "dcterms:modified", now) >> ELSE <<>>)
        \o (IF ep.seriesName # ""
            THEN << V3Meta("seriesinfo", "", "belongs-to-collection",
                           ep.seriesName),
                    V3Meta("", "#seriesinfo", "collection-type", "series") >>
            ELSE <<>>)
        \o (IF ep.setName # ""
            THEN << V3Meta("seriesinfo", "", "belongs-to-collection",
                           ep.setName),
                    V3Meta("", "#seriesinfo", "collection-type", "set") >>
            ELSE <<>>)
        \o (IF ep.entry # <<>>
            THEN << V3Meta("", "#seriesinfo", "group-position", ep.entry) >>
            ELSE <<>>)

addV3Metadata(ep, now) ==
    LET seenDCTerms == \E i \in 1..Len(ep.metadata) :
                           ep.metadata[i].kind = "dcterms:modified"
    IN  Flatten([i \in 1..Len(ep.metadata) |-> V3Entry(ep.metadata[i], i)])
        \o (IF ~seenDCTerms
            THEN << V3Meta("", "", "dcterms:modified", now) >> ELSE <<>>)
        \o (IF ep.seriesName # "" \/ ep.setName # ""
            THEN (IF ep.seriesName # ""
                  THEN << V3Meta("seriesinfo", "", "belongs-to-collection",
                                 ep.seriesName),
                          V3Meta("", "#seriesinfo", "collection-type", "series") >>
                  ELSE <<>>)
                 \o (IF ep.setName # ""
                     THEN << V3Meta("seriesinfo", "", "belongs-to-collection",
                                    ep.setName),
                             V3Meta("", "#seriesinfo", "collection-type", "set") >>
                     ELSE <<>>)
                 \o (IF ep.entry # <<>>
                     THEN << V3Meta("", "#seriesinfo", "group-position", ep.entry) >>
                     ELSE <<>>)
            ELSE <<>>)

(***************************************************************************)
(* addV3Manifest (src/v3.go:252-278) and addV3Spine (src/v3.go:280-292),   *)
(* which sorts e.xhtml in place as addSpine does.                          *)
(***************************************************************************)
addV3Manifest(ep) ==
    [i \in 1..Len(ep.images) |->
          Item(ep.images[i].id, ep.images[i].name,
               "image/" \o ep.images[i].filetype,
               IF ep.images[i].id = ep.coverID THEN "cover-image" ELSE "")]
    \o [i \in 1..Len(ep.xhtml) |->
          Item(ep.xhtml[i].id, ep.xhtml[i].name, "application/xhtml+xml", "")]
    \o [i \in 1..Len(ep.styles) |->
          Item(ep.styles[i].id, ep.styles[i].name, "text/css", "")]
    \o [i \in 1..Len(ep.scripts) |->
          Item(ep.scripts[i].id, ep.scripts[i].name, "application/javascript", "")]
    \o [i \in 1..Len(ep.fonts) |->
          Item(ep.fonts[i].id, ep.fonts[i].name, "application/opentype", "")]
    \o << Item("ncx", <<"__toc.xhtml">>, "application/xhtml+xml", "nav") >>

\* addV3Spine without the sort: the documents as e.xhtml holds them.
addV3Spine_Unsorted(ep) ==
    { [ xhtml |-> ep.xhtml, spine |-> [i \in 1..Len(ep.xhtml) |-> ep.xhtml[i].id] ] }

addV3Spine(ep) ==
    { [ xhtml |-> x, spine |-> [i \in 1..Len(x) |-> x[i].id] ] :
        x \in SortSlice(ep.xhtml, xhtmlPairs(ep.xhtml)) }

(***************************************************************************)
(* writeV3Navpoints (src/v3.go:333-348); the sort.Slice call of line 335   *)
(* is taken by SortNavpoints, as for writeNavpoints.                       *)
(***************************************************************************)
RECURSIVE writeV3Navpoints(_, _, _)
RECURSIVE writeV3NavpointsFrom(_, _, _, _)
writeV3NavpointsFrom(i, np, prefix, h) ==
    IF i > Len(np) THEN <<>>
    ELSE LET n == np[i]
         IN  << [tag |-> "li", prefix |-> prefix],
                [ tag |-> "a", prefix |-> prefix, href |-> h[n].filename,
                  label |-> h[n].label, node |-> n ] >>
             \o (IF Len(h[n].navpoints) # 0
                 THEN writeV3Navpoints(h[n].navpoints, prefix \o "  ", h)
                 ELSE <<>>)
             \o << [tag |-> "/li", prefix |-> prefix] >>
             \o writeV3NavpointsFrom(i + 1, np, prefix, h)

writeV3Navpoints(np, prefix, h) ==
    << [tag |-> "ol", prefix |-> prefix] >>
    \o writeV3NavpointsFrom(1, np, prefix, h)
    \o << [tag |-> "/ol", prefix |-> prefix] >>

(***************************************************************************)
(* addTocV3, addContainerV3, renditionNamesV3, addRenditionsV3             *)
(* (src/v3.go:309-331, 148-165, 170-172, 176-193).                         *)
(***************************************************************************)
addTocV3(ep, nv) ==
    Create(<<"OPS/", "__toc.xhtml">>,
           [ title |-> ep.title,
             nav   |-> writeV3Navpoints(nv.navpoints, "    ", nv.heap) ])

renditionNamesV3 == << "book.opf" >>

addContainerV3 ==
    Create(<<"META-INF/", "container.xml">>,
           [rootfiles |-> [i \in 1..Len(renditionNamesV3) |->
                             <<"OPS/", renditionNamesV3[i]>>]])

addRenditionsV3(ep, sp, now) ==
    Create(<<"OPS/", "book.opf">>,
           [ version  |-> "3.0",
             metadata |-> addV3Metadata(ep, now),
             manifest |-> addV3Manifest(ep),
             spine    |-> sp.spine ])

(***************************************************************************)
(* SerializeV3 (src/v3.go:37-141).                                         *)
(***************************************************************************)
\* The generated entries written before the fonts.
ArchiveV3_FontsLast(ep, sp, nv, now) ==
    << Create(<<"mimetype">>, "application/epub+zip") >>
    \o WriteResources(ep.images)
    \o WriteXHTMLV3(ep)
    \o WriteResources(ep.styles)
    \o WriteResources(ep.scripts)
    \o << addTocV3(ep, nv), addContainerV3, addRenditionsV3(ep, sp, now) >>
    \o WriteResources(ep.fonts)

ArchiveV3(ep, sp, nv, now) ==
    << Create(<<"mimetype">>, "application/epub+zip") >>
    \o WriteResources(ep.images)
    \o WriteXHTMLV3(ep)
    \o WriteResources(ep.styles)
    \o WriteResources(ep.scripts)
    \o WriteResources(ep.fonts)
    \o << addTocV3(ep, nv), addContainerV3, addRenditionsV3(ep, sp, now) >>

ResourcesV3(ep) ==
    WriteResources(ep.images)
    \o WriteXHTMLV3(ep)
    \o WriteResources(ep.styles)
    \o WriteResources(ep.scripts)
    \o WriteResources(ep.fonts)

\* SerializeV3 that keeps the contents it has fixed in the Document.
SerializeV3_StoreFixed ==
    \E sp \in addV3Spine(e) :
    \E nv \in SortNavpoints(e.navpoints, heap) :
    \E now \in Clock :
        /\ ret' = Returned("SerializeV3", <<>>, "", "", ArchiveV3(e, sp, nv, now))
        /\ e' = [e EXCEPT !.xhtml = [i \in 1..Len(sp.xhtml) |->
                                       [sp.xhtml[i] EXCEPT
                                          !.contents = fixV2XHTML(@)]],
                          !.navpoints = nv.navpoints]
        /\ heap' = nv.heap
        /\ UNCHANGED calls

SerializeV3 ==
    IF ResourceError(ResourcesV3(e)) # ""
    THEN /\ ret' = Returned("SerializeV3", <<>>, ResourceError(ResourcesV3(e)),
                            "", <<>>)
         /\ UNCHANGED <<e, heap, calls>>
    ELSE \E sp \in addV3Spine(e) :
         \E nv \in SortNavpoints(e.navpoints, heap) :
         \E now \in Clock :
             /\ ret' = Returned("SerializeV3", <<>>, "", "",
                                ArchiveV3(e, sp, nv, now))
             /\ e' = [e EXCEPT !.xhtml = sp.xhtml, !.navpoints = nv.navpoints]
             /\ heap' = nv.heap
             /\ UNCHANGED calls

(***************************************************************************)
(* SetSeries, SetSet (src/metadata.go:151-168).                            *)
(***************************************************************************)
\* SetSeries without its guard: the name is overwritten.
SetSeries_Overwrite(s) ==
    /\ e' = [e EXCEPT !.seriesName = s]
    /\ ret' = Returned("SetSeries", <<s>>, "", "", <<>>)
    /\ calls' = Append(calls, [ op |-> "SetSeries", arg |-> s, err |-> ret'.err,
                                after |-> e'.seriesName ])
    /\ UNCHANGED heap

SetSeries(s) ==
    /\ IF e.seriesName # ""
       THEN /\ ret' = Returned("SetSeries", <<s>>, "series name already set", "", <<>>)
            /\ e' = e
       ELSE /\ e' = [e EXCEPT !.seriesName = s]
            /\ ret' = Returned("SetSeries", <<s>>, "", "", <<>>)
    /\ calls' = Append(calls, [ op |-> "SetSeries", arg |-> s, err |-> ret'.err,
                                after |-> e'.seriesName ])
    /\ UNCHANGED heap

SetSet(s) ==
    /\ IF e.setName # ""
       THEN /\ ret' = Returned("SetSet", <<s>>, "set name already set", "", <<>>)
            /\ e' = e
       ELSE /\ e' = [e EXCEPT !.setName = s]
            /\ ret' = Returned("SetSet", <<s>>, "", "", <<>>)
    /\ calls' = Append(calls, [ op |-> "SetSet", arg |-> s, err |-> ret'.err,
                                after |-> e'.setName ])
    /\ UNCHANGED heap

(***************************************************************************)
(* SetEntryNumber (src/metadata.go:174-182).  A string is the sequence of  *)
(* its characters.  strings.TrimSpace cuts the leading and the trailing    *)
(* white space; regexp.MatchString runs ^(\d+)(\.\d+)*$, here as the       *)
(* positions the expression can reach: DigitRun is \d+ from position i,    *)
(* DotGroups closes a set of positions under (\.\d+), and $ asks for the   *)
(* end of the text.                                                        *)
(***************************************************************************)
IsSpace(c) == c \in {" ", "\t", "\n"}

IsDigit(c) == c \in {"0", "1", "2", "3", "4", "5", "6", "7", "8", "9"}

RECURSIVE TrimLeft(_)
TrimLeft(s) == IF s # <<>> /\ IsSpace(Head(s)) THEN TrimLeft(Tail(s)) ELSE s

RECURSIVE TrimRight(_)
TrimRight(s) ==
    IF s # <<>> /\ IsSpace(s[Len(s)]) THEN TrimRight(SubSeq(s, 1, Len(s) - 1)) ELSE s

\* Only the leading white space cut.
TrimSpace_LeftOnly(s) == TrimLeft(s)

TrimSpace(s) == TrimRight(TrimLeft(s))

DigitRun(s, i) ==
    { j \in (i + 1)..(Len(s) + 1) : \A k \in i..(j - 1) : IsDigit(s[k]) }

RECURSIVE DotGroups(_, _)
DotGroups(s, P) ==
    LET Q == P \cup UNION { IF i <= Len(s) /\ s[i] = "." THEN DigitRun(s, i + 1)
                            ELSE {} : i \in P }
    IN  IF Q = P THEN P ELSE DotGroups(s, Q)

MatchString(s) == (Len(s) + 1) \in DotGroups(s, DigitRun(s, 1))

SetEntryNumber(n) ==
    /\ LET t == TrimSpace(n)
       IN  IF ~MatchString(t)
           THEN /\ ret' = Returned("SetEntryNumber", <<n>>,
                              "entry number must match the pattern \\d+(\\.\\d+)*",
                              "", <<>>)
                /\ e' = e
           ELSE /\ e' = [e EXCEPT !.entry = t]
                /\ ret' = Returned("SetEntryNumber", <<n>>, "", "", <<>>)
    /\ UNCHANGED <<heap, calls>>

(***************************************************************************)
(* The metadata calls (src/metadata.go:10-67, 127-146).  validRoles is the *)
(* MARC relator table of lines 71-125; a role that is not a key of the map *)
(* reads as false.                                                         *)
(***************************************************************************)
validRoles ==
    { "abr", "act", "adp", "rcp", "anl", "anm", "ann", "apl", "ape", "app",
      "arc", "arr", "acp", "adi", "art", "ard", "asg", "asn", "att", "auc",
      "aut", "aqt", "aft", "aud", "aui", "ato", "ant", "bnd", "bdd", "blw",
      "bkd", "bkp", "bjd", "bpd", "bsl", "brl", "brd", "cll", "ctg", "cas",
      "cns", "chr", "cng", "cli", "cor", "col", "clt", "clr", "cmm", "cwt",
      "com", "cpl", "cpt", "cpe", "cmp", "cmt", "ccp", "cnd", "con", "csl",
      "csp", "cos", "cot", "coe", "cts", "ctt", "cte", "ctr", "ctb", "cpc",
      "cph", "crr", "crp", "cst", "cou", "crt", "cov", "cre", "cur", "dnc",
      "dtc", "dtm", "dte", "dto", "dfd", "dft", "dfe", "dgg", "dgs", "dln",
      "dpc", "dpt", "dsr", "drt", "dis", "dbp", "dst", "dnr", "drm", "dub",
      "edt", "edc", "edm", "elg", "elt", "enj", "eng", "egr", "etr", "evp",
      "exp", "fac", "fld", "fmd", "fds", "flm", "fmp", "fmk", "fpy", "frg",
      "fmo", "fnd", "gis", "hnr", "hst", "his", "ilu", "ill", "ins", "itr",
      "ive", "ivr", "inv", "isb", "jud", "jug", "lbr", "ldr", "lsa", "led",
      "len", "lil", "lit", "lie", "lel", "let", "lee", "lbt", "lse", "lso",
      "lgd", "ltg", "lyr", "mfp", "mfr", "mrb", "mrk", "med", "mdc", "mte",
      "mtk", "mod", "mon", "mcp", "msd", "mus", "nrt", "osp", "opn", "orm",
      "org", "oth", "own", "pan", "ppm", "pta", "pth", "pat", "prf", "pma",
      "pht", "ptf", "ptt", "pte", "plt", "pra", "pre", "prt", "pop", "prm",
      "prc", "pro", "prn", "prs", "pmn", "prd", "prp", "prg", "pdr", "pfr",
      "prv", "pup", "pbl", "pbd", "ppt", "rdd", "rpc", "rce", "rcd", "red",
      "ren", "rpt", "rps", "rth", "rtm", "res", "rsp", "rst", "rse", "rpy",
      "rsg", "rsr", "rev", "rbr", "sce", "sad", "aus", "scr", "scl", "spy",
      "sec", "sll", "std", "stg", "sgn", "sng", "sds", "spk", "spn", "sgd",
      "stm", "stn", "str", "stl", "sht", "srv", "tch", "tcd", "tld", "tlp",
      "ths", "trc", "trl", "tyd", "tyg", "uvp", "vdg", "vac", "wit", "wde",
      "wdc", "wam", "wac", "wal", "wat", "win", "wpr", "wst" }

\* The registry entry of AddCreator and AddContributor (lines 43-47, 60-64).
RoleEntry(kind, creator, role) ==
    [ kind  |-> kind,
      value |-> creator,
      pairs |-> << [ key |-> "role", v2prefix |-> "opf:", v3prefix |-> "",
                     value |-> role, scheme |-> "marc:relators" ] >> ]

\* The Document after e.AddCreator(creator, role) on ep, whose error the
\* callers AddAuthor and AddArtist drop.
WithCreator(ep, creator, role) ==
    IF role \notin validRoles THEN ep
    ELSE [ep EXCEPT !.metadata = Append(@, RoleEntry("dc:creator", creator, role))]

\* AddContributor with the validRoles test left out.
AddContributor_AnyRole(creator, role) ==
    /\ e' = [e EXCEPT !.metadata =
                Append(@, RoleEntry("dc:contributor", creator, role))]
    /\ ret' = Returned("AddContributor", <<creator, role>>, "", "", <<>>)
    /\ UNCHANGED <<heap, calls>>

AddCreator(creator, role) ==
    /\ e' = WithCreator(e, creator, role)
    /\ ret' = Returned("AddCreator", <<creator, role>>,
                       IF role \notin validRoles THEN "invalid role " \o role ELSE "",
                       "", <<>>)
    /\ UNCHANGED <<heap, calls>>

AddContributor(creator, role) ==
    /\ IF role \notin validRoles
       THEN /\ ret' = Returned("AddContributor", <<creator, role>>,
                               "invalid role " \o role, "", <<>>)
            /\ e' = e
       ELSE /\ e' = [e EXCEPT !.metadata =
                        Append(@, RoleEntry("dc:contributor", creator, role))]
            /\ ret' = Returned("AddContributor", <<creator, role>>, "", "", <<>>)
    /\ UNCHANGED <<heap, calls>>

\* addDcItem (lines 142-146): an entry without pairs.
addDcItem(ep, i, v) ==
    [ep EXCEPT !.metadata = Append(@, [kind |-> "dc:" \o i, value |-> v,
                                       pairs |-> <<>>])]

SetTitle(title) ==
    /\ e' = addDcItem([e EXCEPT !.title = title], "title", title)
    /\ ret' = Returned("SetTitle", <<title>>, "", "", <<>>)
    /\ UNCHANGED <<heap, calls>>

AddAuthor(author) ==
    /\ e' = WithCreator([e EXCEPT !.authors = Append(@, author)], author, "aut")
    /\ ret' = Returned("AddAuthor", <<author>>, "", "", <<>>)
    /\ UNCHANGED <<heap, calls>>

\* AddArtist that keeps the name in the list of artists only.
AddArtist_ListOnly(artist) ==
    /\ e' = [e EXCEPT !.artists = Append(@, artist)]
    /\ ret' = Returned("AddArtist", <<artist>>, "", "", <<>>)
    /\ UNCHANGED <<heap, calls>>

AddArtist(artist) ==
    /\ e' = WithCreator([e EXCEPT !.artists = Append(@, artist)], artist, "art")
    /\ ret' = Returned("AddArtist", <<artist>>, "", "", <<>>)
    /\ UNCHANGED <<heap, calls>>

\* SetCoverImage that keeps the first cover it was given.
SetCoverImage_KeepFirst(id) ==
    /\ e' = [e EXCEPT !.metadata =
                Append(@, [ kind  |-> "meta",
                            value |-> "",
                            pairs |-> << [ key |-> "name", v2prefix |-> "",
                                           v3prefix |-> "", value |-> "cover",
                                           scheme |-> "" ],
                                         [ key |-> "content", v2prefix |-> "",
                                           v3prefix |-> "", value |-> id,
                                           scheme |-> "" ] >> ]),
                       !.coverID = IF e.coverID = "" THEN id ELSE e.coverID]
    /\ ret' = Returned("SetCoverImage", <<id>>, "", "", <<>>)
    /\ UNCHANGED <<heap, calls>>

\* SetCoverImage (src/unnamed/part_001:400-410).
SetCoverImage(id) ==
    /\ e' = [e EXCEPT !.metadata =
                Append(@, [ kind  |-> "meta",
                            value |-> "",
                            pairs |-> << [ key |-> "name", v2prefix |-> "",
                                           v3prefix |-> "", value |-> "cover",
                                           scheme |-> "" ],
                                         [ key |-> "content", v2prefix |-> "",
                                           v3prefix |-> "", value |-> id,
                                           scheme |-> "" ] >> ]),
                       !.coverID = id]
    /\ ret' = Returned("SetCoverImage", <<id>>, "", "", <<>>)
    /\ UNCHANGED <<heap, calls>>

(***************************************************************************)
(* UUID and SetUUID (src/unnamed/part_001:171-191).  A string is a TLA+    *)
(* string here, with Len, SubSeq and \o as on sequences.  uuid.FromString  *)
(* of github.com/gofrs/uuid reads the canonical form, the form in braces   *)
(* and the URN form, and String() writes the canonical form.               *)
(***************************************************************************)
CanonicalUUIDs == {"0d4c5f2e", "6ba7b810"}

StringHasPrefix(s, prefix) ==
    Len(s) >= Len(prefix) /\ SubSeq(s, 1, Len(prefix)) = prefix

\* strings.TrimPrefix(s, prefix): s without the leading prefix, or s.
TrimPrefix(s, prefix) ==
    IF StringHasPrefix(s, prefix) THEN SubSeq(s, Len(prefix) + 1, Len(s)) ELSE s

FromString(uu) ==
    LET body == IF StringHasPrefix(uu, "urn:uuid:")
                THEN SubSeq(uu, 10, Len(uu))
                ELSE IF Len(uu) >= 2 /\ SubSeq(uu, 1, 1) = "{"
                                     /\ SubSeq(uu, Len(uu), Len(uu)) = "}"
                THEN SubSeq(uu, 2, Len(uu) - 1)
                ELSE uu
    IN  IF body \in CanonicalUUIDs
        THEN [err |-> "", u |-> body]
        ELSE [err |-> "uuid: incorrect UUID format " \o uu, u |-> ""]

\* Line 173 is strings.TrimPrefix("urn:uuid:", e.uuid): the string cut is
\* the literal and the prefix looked for is e.uuid.  The string returned is
\* carried in the id field.
UUID ==
    /\ ret' = Returned("UUID", <<>>, "", TrimPrefix("urn:uuid:", e.uuid), <<>>)
    /\ UNCHANGED <<e, heap, calls>>

\* The loop of lines 185-189 over the registry: m is a copy of the entry,
\* so the entry stays as it is whether or not m.kind is "dc.identifier".
SetUUIDMetadata(ms, uuid) ==
    [i \in 1..Len(ms) |->
        LET m  == ms[i]
            m2 == IF m.kind = "dc.identifier" THEN [m EXCEPT !.value = uuid] ELSE m
        IN  ms[i]]

SetUUID(uu) ==
    LET p == FromString(uu)
    IN  /\ IF p.err # ""
           THEN /\ ret' = Returned("SetUUID", <<uu>>, p.err, "", <<>>)
                /\ e' = e
           ELSE /\ e' = [e EXCEPT !.uuid = "urn:uuid:" \o p.u,
                                  !.metadata = SetUUIDMetadata(@, "urn:uuid:" \o p.u)]
                /\ ret' = Returned("SetUUID", <<uu>>, "", "", <<>>)
        /\ UNCHANGED <<heap, calls>>

(***************************************************************************)
(* SetVersion and the Write calls (src/unnamed/part_001:159-165, 415-425;  *)
(* src/unnamed/part_000:17-29; src/v3.go:26-36).  ioutil.WriteFile may     *)
(* fail; the bytes handed to it are carried in buf.                        *)
(***************************************************************************)
\* SetVersion without the test of line 160.
SetVersion_Unchecked(version) ==
    /\ e' = [e EXCEPT !.version = version]
    /\ ret' = Returned("SetVersion", <<version>>, "", "", <<>>)
    /\ UNCHANGED <<heap, calls>>

SetVersion(version) ==
    /\ IF version # 2 /\ version # 3
       THEN /\ ret' = Returned("SetVersion", <<version>>,
                               "EPub version " \o ToString(version)
                                   \o " is unsupported", "", <<>>)
            /\ e' = e
       ELSE /\ e' = [e EXCEPT !.version = version]
            /\ ret' = Returned("SetVersion", <<version>>, "", "", <<>>)
    /\ UNCHANGED <<heap, calls>>

WriteFileErrors == {"", "open: permission denied"}

WriteV2(op, name) ==
    IF ResourceError(ResourcesV2(e)) # ""
    THEN /\ ret' = Returned(op, <<name>>, ResourceError(ResourcesV2(e)), "", <<>>)
         /\ UNCHANGED <<e, heap, calls>>
    ELSE \E sp \in addSpine(e) :
         \E nv \in SortNavpoints(e.navpoints, heap) :
         \E err \in WriteFileErrors :
             /\ ret' = Returned(op, <<name>>, err, "", ArchiveV2(e, sp, nv))
             /\ e' = [e EXCEPT !.xhtml = sp.xhtml, !.navpoints = nv.navpoints]
             /\ heap' = nv.heap
             /\ UNCHANGED calls

WriteV3(op, name) ==
    IF ResourceError(ResourcesV3(e)) # ""
    THEN /\ ret' = Returned(op, <<name>>, ResourceError(ResourcesV3(e)), "", <<>>)
         /\ UNCHANGED <<e, heap, calls>>
    ELSE \E sp \in addV3Spine(e) :
         \E nv \in SortNavpoints(e.navpoints, heap) :
         \E now \in Clock :
         \E err \in WriteFileErrors :
             /\ ret' = Returned(op, <<name>>, err, "", ArchiveV3(e, sp, nv, now))
             /\ e' = [e EXCEPT !.xhtml = sp.xhtml, !.navpoints = nv.navpoints]
             /\ heap' = nv.heap
             /\ UNCHANGED calls

\* Write: the switch of lines 417-424.
Write(name) ==
    IF e.version = 2 THEN WriteV2("Write", name)
    ELSE IF e.version = 3 THEN WriteV3("Write", name)
    ELSE /\ ret' = Returned("Write", <<name>>,
                            "Unable to write epub version "
                                \o ToString(e.version) \o " files", "", <<>>)
         /\ UNCHANGED <<e, heap, calls>>

(***************************************************************************)
(* Specifications.  Each draws the calls of one part of the API from small *)
(* sets of arguments.                                                      *)
(***************************************************************************)
\* The reading order: text documents and both serializers.
Next ==
    \/ \E o \in OrderArgs :
          /\ Len(e.xhtml) < MaxXhtml
          /\ AddXHTML(XhtmlPath, LegacyDoc, o)
    \/ SerializeV2
    \/ SerializeV3

Spec == Init /\ [][Next]_vars

\* The archive: the five resource collections and both serializers.
NextArchive ==
    \/ \E c \in ImageContents :
          /\ Len(e.images) < MaxPerClass
          /\ AddImage(ImagePath, c)
    \/ \E c \in {LegacyDoc, PlainDoc} :
          /\ Len(e.xhtml) < MaxPerClass
          /\ AddXHTML(XhtmlPath, c, <<>>)
    \/ /\ Len(e.styles) < MaxPerClass
       /\ AddStylesheet(StylePath, "body {}")
    \/ /\ Len(e.scripts) < MaxPerClass
       /\ AddJavaScript(ScriptPath, "void 0;")
    \/ \E p \in FontPaths :
          /\ Len(e.fonts) < MaxPerClass
          /\ AddFont(p, "OTTO-bytes")
    \/ SerializeV2
    \/ SerializeV3

SpecArchive == Init /\ [][NextArchive]_vars

\* The table of contents: navpoints and both serializers.
NavOrders == {1, 2}

NextNav ==
    \/ \E o \in NavOrders :
          /\ Len(heap) < MaxNav
          /\ AddNavpoint("Chapter", "xhtml/a.xhtml", o)
    \/ \E n \in DOMAIN heap, o \in NavOrders :
          /\ Len(heap) < MaxNav
          /\ NavpointAddNavpoint(n, "Section", "xhtml/a.xhtml#s", o)
    \/ SerializeV2
    \/ SerializeV3

SpecNav == Init /\ [][NextNav]_vars

\* Series and set.
Names == {"", "Dune", "Culture"}

NextSeries ==
    \/ \E s \in Names :
          /\ Len(calls) < MaxCalls
          /\ SetSeries(s)
    \/ \E s \in Names :
          /\ Len(calls) < MaxCalls
          /\ SetSet(s)

SpecSeries == Init /\ [][NextSeries]_vars

\* The entry number: every string of at most MaxLen characters of Chars.
Chars == {"7", ".", " ", "a"}

Strings == UNION { [1..n -> Chars] : n \in 0..MaxLen }

NextEntry == \E n \in Strings : SetEntryNumber(n)

SpecEntry == Init /\ [][NextEntry]_vars

\* The metadata registry: creators, contributors, title, cover, the book
\* identifier and both serializers.
MetaNames == {"Ann"}

MetaRoles == {"aut", "ill", "xyz", ""}

UUIDArgs == {"6ba7b810", "urn:uuid:6ba7b810", "{0d4c5f2e}", "6ba7"}

NextMeta ==
    \/ \E n \in MetaNames, r \in MetaRoles :
          /\ Len(e.metadata) < MaxMeta
          /\ AddCreator(n, r)
    \/ \E n \in MetaNames, r \in MetaRoles :
          /\ Len(e.metadata) < MaxMeta
          /\ AddContributor(n, r)
    \/ /\ Len(e.metadata) < MaxMeta
       /\ SetTitle("Dune")
    \/ \E n \in MetaNames :
          /\ Len(e.metadata) < MaxMeta
          /\ AddAuthor(n)
    \/ /\ Len(e.metadata) < MaxMeta
       /\ SetCoverImage("img1")
    \/ \E u \in UUIDArgs : SetUUID(u)
    \/ UUID
    \/ SerializeV2
    \/ SerializeV3

SpecMeta == Init /\ [][NextMeta]_vars

\* The five resource collections with repeated paths, the table of
\* contents and both serializers.
Records(ep) ==
    Len(ep.images) + Len(ep.xhtml) + Len(ep.styles) + Len(ep.scripts)
        + Len(ep.fonts)

AddOrderArgs == {<<>>, <<1>>, <<1, 5>>}

NextAdd ==
    \/ \E c \in ImageContents :
          /\ Records(e) + Len(heap) < MaxRecords
          /\ AddImage(ImagePath, c)
    \/ \E c \in {LegacyDoc, PlainDoc}, o \in AddOrderArgs :
          /\ Records(e) + Len(heap) < MaxRecords
          /\ AddXHTML(XhtmlPath, c, o)
    \/ \E c \in {"body {}", "p {}"} :
          /\ Records(e) + Len(heap) < MaxRecords
          /\ AddStylesheet(StylePath, c)
    \/ /\ Records(e) + Len(heap) < MaxRecords
       /\ AddJavaScript(ScriptPath, "void 0;")
    \/ \E p \in FontPaths :
          /\ Records(e) + Len(heap) < MaxRecords
          /\ AddFont(p, "OTTO-bytes")
    \/ /\ Records(e) + Len(heap) < MaxRecords
       /\ AddNavpoint("Chapter", "xhtml/a.xhtml", 1)
    \/ SerializeV2
    \/ SerializeV3

SpecAdd == Init /\ [][NextAdd]_vars

\* The schema version: SetVersion, Write and text documents to write.
Versions == {0, 2, 3, 4}

NextVersion ==
    \/ \E v \in Versions : SetVersion(v)
    \/ Write("book.epub")
    \/ \E o \in {<<>>, <<1>>} :
          /\ Len(e.xhtml) < MaxXhtml
          /\ AddXHTML(XhtmlPath, LegacyDoc, o)

SpecVersion == Init /\ [][NextVersion]_vars

\* The order of the calls: text documents of several paths with explicit
\* orders, navpoints of several labels, and both serializers.
DocPaths == {<<"xhtml/a", ".xhtml">>, <<"xhtml/b", ".xhtml">>}

DocOrders == {1, 2}

NavLabels == {"One", "Two"}

NextOrder ==
    \/ \E p \in DocPaths, o \in DocOrders :
          /\ Len(e.xhtml) + Len(heap) < MaxDocs
          /\ AddXHTML(p, PlainDoc, <<o>>)
    \/ \E l \in NavLabels, o \in NavOrders :
          /\ Len(e.xhtml) + Len(heap) < MaxDocs
          /\ AddNavpoint(l, "xhtml/a.xhtml", o)
    \/ \E n \in DOMAIN heap, o \in NavOrders :
          /\ Len(e.xhtml) + Len(heap) < MaxDocs
          /\ NavpointAddNavpoint(n, "Sub", "xhtml/a.xhtml#s", o)
    \/ SerializeV2
    \/ SerializeV3

SpecOrder == Init /\ [][NextOrder]_vars

\* Series, set and entry number with both serializers.
EntryNumbers == { <<"7">>, <<"7", ".", "7">>, <<"a">> }

CollectionNames == {"", "Dune"}

NextCollection ==
    \/ \E s \in CollectionNames :
          /\ Len(calls) < MaxCalls
          /\ SetSeries(s)
    \/ \E s \in CollectionNames :
          /\ Len(calls) < MaxCalls
          /\ SetSet(s)
    \/ \E n \in EntryNumbers : SetEntryNumber(n)
    \/ \E o \in {<<>>, <<1>>} :
          /\ Len(e.xhtml) < MaxPerClass
          /\ AddXHTML(XhtmlPath, PlainDoc, o)
    \/ SerializeV2
    \/ SerializeV3

SpecCollection == Init /\ [][NextCollection]_vars


\* The cover: images, a text document, SetCoverImage with the identifier of
\* an image, of a text document and of nothing, and the v3 serializer.
CoverArgs == {"img1", "img2", "xhtml1"}

NextCover ==
    \/ \E c \in ImageContents :
          /\ Len(e.images) < MaxImages
          /\ AddImage(ImagePath, c)
    \/ /\ Len(e.xhtml) < MaxPerClass
       /\ AddXHTML(XhtmlPath, PlainDoc, <<>>)
    \/ \E id \in CoverArgs :
          /\ Len(e.metadata) < MaxMeta
          /\ SetCoverImage(id)
    \/ SerializeV3

SpecCover == Init /\ [][NextCover]_vars

\* Both serializers on one Document: resources of the five classes, text
\* documents in and out of spine order, navpoints with equal and with
\* different orders at two levels.
NextAgree ==
    \/ /\ Records(e) + Len(heap) < MaxRecords
       /\ AddImage(ImagePath, "PNG-bytes")
    \/ \E o \in {<<>>, <<1>>} :
          /\ Records(e) + Len(heap) < MaxRecords
          /\ AddXHTML(XhtmlPath, PlainDoc, o)
    \/ /\ Records(e) + Len(heap) < MaxRecords
       /\ AddStylesheet(StylePath, "body {}")
    \/ /\ Records(e) + Len(heap) < MaxRecords
       /\ AddJavaScript(ScriptPath, "void 0;")
    \/ /\ Records(e) + Len(heap) < MaxRecords
       /\ AddFont(<<"fonts/f", ".otf">>, "OTTO-bytes")
    \/ \E o \in NavOrders :
          /\ Records(e) + Len(heap) < MaxRecords
          /\ AddNavpoint("Chapter", "xhtml/a.xhtml", o)
    \/ \E n \in DOMAIN heap, o \in NavOrders :
          /\ Records(e) + Len(heap) < MaxRecords
          /\ NavpointAddNavpoint(n, "Section", "xhtml/a.xhtml#s", o)
    \/ SerializeV2
    \/ SerializeV3

SpecAgree == Init /\ [][NextAgree]_vars

\* Registrations that fail and that succeed: the *File variants on sources
\* the disk holds and on one it does not hold, AddImage and AddFont.
LostSource == "lost"

NextFile ==
    \/ \E s \in {"cover", "notes", LostSource} :
          /\ Records(e) < MaxRecords
          /\ AddImageFile(s, ImagePath)
    \/ \E s \in {"script", LostSource} :
          /\ Records(e) < MaxRecords
          /\ AddJavaScriptFile(s, ScriptPath)
    \/ \E s \in {"font", LostSource}, p \in FontPaths :
          /\ Records(e) < MaxRecords
          /\ AddFontFile(s, p)
    \/ \E s \in {"page", LostSource}, o \in {<<>>, <<1, 5>>} :
          /\ Records(e) < MaxRecords
          /\ AddXHTMLFile(s, XhtmlPath, o)
    \/ \E s \in {"style", LostSource} :
          /\ Records(e) < MaxRecords
          /\ AddStylesheetFile(s, StylePath)
    \/ \E c \in ImageContents :
          /\ Records(e) < MaxRecords
          /\ AddImage(ImagePath, c)
    \/ \E p \in FontPaths :
          /\ Records(e) < MaxRecords
          /\ AddFont(p, "OTTO-bytes")

SpecFile == Init /\ [][NextFile]_vars

\* The title, the authors and the artists next to the registry.
ViewNames == {"Ann", "Bob"}

ViewTitles == {"Dune", "Emma"}

ViewRoles == {"aut", "art", "xyz"}

NextViews ==
    \/ \E t \in ViewTitles :
          /\ Len(e.metadata) < MaxMeta
          /\ SetTitle(t)
    \/ \E n \in ViewNames :
          /\ Len(e.metadata) < MaxMeta
          /\ AddAuthor(n)
    \/ \E n \in ViewNames :
          /\ Len(e.metadata) < MaxMeta
          /\ AddArtist(n)
    \/ \E n \in ViewNames, r \in ViewRoles :
          /\ Len(e.metadata) < MaxMeta
          /\ AddCreator(n, r)
    \/ \E n \in ViewNames, r \in ViewRoles :
          /\ Len(e.metadata) < MaxMeta
          /\ AddContributor(n, r)

SpecViews == Init /\ [][NextViews]_vars

\* Packaging that fails: resources under a path that names a directory or
\* is too long for the archive, with and without contents.
DirPath == <<"xhtml/notes", "/">>

LongPath == <<"xhtml/", LongName, ".xhtml">>

NextFail ==
    \/ \E p \in {XhtmlPath, DirPath, LongPath}, c \in {PlainDoc, <<>>} :
          /\ Records(e) < MaxRecords
          /\ AddXHTML(p, c, <<>>)
    \/ \E p \in {StylePath, DirPath}, c \in {"body {}", ""} :
          /\ Records(e) < MaxRecords
          /\ AddStylesheet(p, c)
    \/ \E p \in {ImagePath, LongPath} :
          /\ Records(e) < MaxRecords
          /\ AddImage(p, "PNG-bytes")
    \/ SerializeV2
    \/ SerializeV3

SpecFail == Init /\ [][NextFail]_vars

\* The fixer: text documents with the v2 header, without a header and with
\* the v2 header below the first line, and both serializers.
EmbeddedDoc == <<Markup, Newline, XmlDecl, Newline, DoctypeV2>>

NextFixer ==
    \/ \E c \in {LegacyDoc, PlainDoc, EmbeddedDoc}, o \in {<<>>, <<1>>} :
          /\ Len(e.xhtml) < MaxXhtml
          /\ AddXHTML(XhtmlPath, c, o)
    \/ SerializeV2
    \/ SerializeV3

SpecFixer == Init /\ [][NextFixer]_vars

(***************************************************************************)
(* Properties.                                                             *)
(***************************************************************************)
Serializers == {"SerializeV2", "SerializeV3"}

PackageNames == { <<"OPS/", "content.opf">>, <<"OPS/", "book.opf">> }

NavigationNames == { <<"OPS/", "toc.ncx">>, <<"OPS/", "__toc.xhtml">> }

ContainerNames == { <<"META-INF/", "container.xml">> }

GeneratedNames == PackageNames \cup NavigationNames \cup ContainerNames

\* The package description of an archive: content.opf or book.opf.
Package(buf) ==
    buf[CHOOSE i \in 1..Len(buf) : buf[i].name \in PackageNames].body

\* The navigation file of an archive, as the pointers of the Navpoints in
\* the order their elements are written.
Navigation(buf) ==
    LET body == buf[CHOOSE i \in 1..Len(buf) : buf[i].name \in NavigationNames].body
    IN  IF "navMap" \in DOMAIN body THEN body.navMap ELSE body.nav

\* The text document that was given the k-th "xhtml" identifier, which is
\* the k-th one added.
Added(k) == CHOOSE x \in Range(e.xhtml) : x.id = "xhtml" \o ToString(k)

AddedAt(id) == CHOOSE k \in 1..Len(e.xhtml) : id = "xhtml" \o ToString(k)

\* C1: after any interleaving of AddXHTML calls and serializations, the
\* spine a serializer writes lists every text document exactly once, in
\* ascending order of (explicit order, insertion index).
C1_SpineOrder ==
    ret.op \in Serializers =>
        LET spine == Package(ret.buf).spine
            n     == Len(e.xhtml)
        IN  /\ Len(spine) = n
            /\ Range(spine) = { "xhtml" \o ToString(k) : k \in 1..n }
            /\ \A i, j \in 1..n :
                  i < j =>
                    LET a == AddedAt(spine[i])
                        b == AddedAt(spine[j])
                    IN  \/ Added(a).order < Added(b).order
                        \/ Added(a).order = Added(b).order /\ a < b

\* Documents added with the orders 5, 1, 5 come out as doc2, doc1, doc3.
C1_Witness ==
    /\ ret.op \in Serializers
    /\ Len(e.xhtml) = 3
    /\ Added(1).order = 5 /\ Added(2).order = 1 /\ Added(3).order = 5
    /\ Package(ret.buf).spine = <<"xhtml2", "xhtml1", "xhtml3">>

\* C2: serializing the same Document twice under the same schema version,
\* with no call in between, yields the same manifest and the same spine.
C2_Idempotent ==
    [][ (ret.op \in Serializers /\ ret'.op = ret.op) =>
            /\ Package(ret'.buf).manifest = Package(ret.buf).manifest
            /\ Package(ret'.buf).spine = Package(ret.buf).spine ]_vars

\* C3: a serialization leaves the Document as it found it: the order of the
\* text documents, of the root navpoints and of every child list, and every
\* other field.
C3_ReadOnly ==
    [][ ret'.op \in Serializers => (e' = e /\ heap' = heap) ]_vars

\* C4: in the archive of either serializer the mimetype entry is stored
\* uncompressed and holds application/epub+zip; every other entry is
\* deflated.
C4_MimetypeStored ==
    ret.op \in Serializers =>
        /\ ret.buf[1].name = <<"mimetype">>
        /\ ret.buf[1].method = "Store"
        /\ ret.buf[1].body = "application/epub+zip"
        /\ \A i \in 2..Len(ret.buf) : ret.buf[i].method = "Deflate"

\* The entries of a resource collection as the claim has them: the name
\* under OPS/ and the raw contents, in the collection's order.
RawEntries(rs) ==
    [i \in 1..Len(rs) |-> [name |-> <<"OPS/">> \o rs[i].name,
                           body |-> rs[i].contents]]

\* The same with the contents as fixV2XHTML leaves them.
FixedEntries(rs) ==
    [i \in 1..Len(rs) |-> [name |-> <<"OPS/">> \o rs[i].name,
                           body |-> fixV2XHTML(rs[i].contents)]]

\* How often x occurs in the sequence s.
Count(x, s) == Cardinality({ i \in 1..Len(s) : s[i] = x })

SameBag(s, t) ==
    /\ Len(s) = Len(t)
    /\ \A x \in Range(s) \cup Range(t) : Count(x, s) = Count(x, t)

\* Entries from..to of the archive, as name and contents.
Entries(buf, from, to) ==
    [i \in 1..(to - from + 1) |-> [name |-> buf[from + i - 1].name,
                                   body |-> buf[from + i - 1].body]]

\* The archive is the mimetype entry, then the entries of the five
\* collections (images, text documents, stylesheets, scripts, fonts) with
\* the text documents given by xs, then three generated entries.
EntryOrder(buf, xs) ==
    LET ni == Len(e.images)
        nx == Len(e.xhtml)
        ns == Len(e.styles)
        nj == Len(e.scripts)
        nf == Len(e.fonts)
        r  == ni + nx + ns + nj + nf
    IN  /\ Len(buf) = 1 + r + 3
        /\ buf[1].name = <<"mimetype">>
        /\ Entries(buf, 2, 1 + ni) = RawEntries(e.images)
        /\ SameBag(Entries(buf, 2 + ni, 1 + ni + nx), xs)
        /\ Entries(buf, 2 + ni + nx, 1 + ni + nx + ns) = RawEntries(e.styles)
        /\ Entries(buf, 2 + ni + nx + ns, 1 + ni + nx + ns + nj)
              = RawEntries(e.scripts)
        /\ Entries(buf, 2 + ni + nx + ns + nj, 1 + r) = RawEntries(e.fonts)
        /\ \A i \in 2..(1 + r) : buf[i].name \notin GeneratedNames
        /\ \A i \in (2 + r)..(4 + r) : buf[i].name \in GeneratedNames
        /\ \E i \in (2 + r)..(4 + r) : buf[i].name \in PackageNames
        /\ \E i \in (2 + r)..(4 + r) : buf[i].name \in NavigationNames
        /\ \E i \in (2 + r)..(4 + r) : buf[i].name \in ContainerNames

\* C5 as stated: in both serializers the archive holds the mimetype entry
\* first, then the raw contents of every resource of the five collections
\* under OPS/, and only then the generated entries (package description,
\* navigation file, container pointer).
C5_EntryOrder ==
    ret.op \in Serializers => EntryOrder(ret.buf, RawEntries(e.xhtml))

\* C5, amended: the entries come in that order, mimetype first and the three
\* generated entries last; every resource entry holds the raw contents,
\* except that the v3 serializer writes a text document as the doctype
\* fixer leaves it while the fixer is on; v2 ends with package description,
\* navigation file, container pointer, and v3 with navigation document,
\* container pointer, package description.
C5_EntryOrderFixed ==
    LET n == Len(ret.buf)
        last == [i \in 1..3 |-> ret.buf[n - 3 + i].name]
    IN  /\ ret.op = "SerializeV2" =>
              /\ EntryOrder(ret.buf, RawEntries(e.xhtml))
              /\ last = << <<"OPS/", "content.opf">>, <<"OPS/", "toc.ncx">>,
                           <<"META-INF/", "container.xml">> >>
        /\ ret.op = "SerializeV3" =>
              /\ EntryOrder(ret.buf, IF e.fixV2XHTML THEN FixedEntries(e.xhtml)
                                     ELSE RawEntries(e.xhtml))
              /\ last = << <<"OPS/", "__toc.xhtml">>,
                           <<"META-INF/", "container.xml">>,
                           <<"OPS/", "book.opf">> >>

\* A v3 archive of a Document with a record in each of the five collections,
\* whose text document is not written as it was added.
C5_Witness ==
    /\ ret.op = "SerializeV3"
    /\ Len(e.images) > 0 /\ Len(e.styles) > 0
    /\ Len(e.scripts) > 0 /\ Len(e.fonts) > 0
    /\ Len(e.xhtml) > 0
    /\ \E i \in 1..Len(ret.buf) :
          /\ ret.buf[i].name = <<"OPS/">> \o e.xhtml[1].name
          /\ ret.buf[i].body # e.xhtml[1].contents
    /\ ret.buf[Len(ret.buf)].name \in PackageNames

(***************************************************************************)
(* The navigation tree as the heap holds it.                               *)
(***************************************************************************)
\* The lists of the tree: the root list and the child list of every Navpoint.
SiblingLists == {e.navpoints} \cup { heap[n].navpoints : n \in DOMAIN heap }

Siblings(a, b) == a # b /\ \E l \in SiblingLists : {a, b} \subseteq Range(l)

RECURSIVE Subtree(_)
Subtree(n) == {n} \cup UNION { Subtree(heap[n].navpoints[i]) :
                                 i \in 1..Len(heap[n].navpoints) }

\* The elements a navigation file holds for Navpoints, in the order written.
NavElements(w) ==
    LET idx == { i \in 1..Len(w) : w[i].tag \in {"navPoint", "a"} }
        F[k \in 0..Cardinality(idx)] ==
            IF k = 0 THEN <<>>
            ELSE Append(F[k - 1],
                        w[CHOOSE i \in idx :
                              Cardinality({ j \in idx : j <= i }) = k])
    IN  F[Cardinality(idx)]

\* Where the element of Navpoint n stands among them.
NavPos(els, n) == CHOOSE i \in 1..Len(els) : els[i].node = n

\* C6: the v2 navigation file numbers the navpoints by a depth-first
\* pre-order walk: the playOrder values are exactly 1..N without gap or
\* repeat, a node's number is smaller than that of every node below it, and
\* the whole subtree of an earlier sibling is numbered before the next
\* sibling.
C6_PlayOrder ==
    ret.op = "SerializeV2" =>
        LET els   == NavElements(Navigation(ret.buf))
            N     == Len(heap)
            po(n) == els[NavPos(els, n)].playOrder
        IN  /\ Len(els) = N
            /\ { els[i].node : i \in 1..N } = DOMAIN heap
            /\ { els[i].playOrder : i \in 1..N } = 1..N
            /\ \A n \in DOMAIN heap : \A d \in Subtree(n) \ {n} : po(n) < po(d)
            /\ \A a, b \in DOMAIN heap :
                  (Siblings(a, b) /\ NavPos(els, a) < NavPos(els, b)) =>
                      \A d \in Subtree(a) : po(d) < po(b)

\* A v2 navigation file of a root navpoint with a child, followed by a
\* second root navpoint.
C6_Witness ==
    /\ ret.op = "SerializeV2"
    /\ Len(e.navpoints) >= 2
    /\ Len(heap[e.navpoints[1]].navpoints) >= 1
    /\ NavElements(Navigation(ret.buf))[3].node = e.navpoints[2]
    /\ NavElements(Navigation(ret.buf))[3].playOrder = 3

\* C7: in both navigation files the navpoints under one parent are written
\* in ascending order of their order key, and those with equal keys in the
\* order in which they were added (a Navpoint's pointer is its allocation
\* index, so the one added earlier has the smaller pointer).
C7_StableSiblings ==
    ret.op \in Serializers =>
        LET els == NavElements(Navigation(ret.buf))
        IN  \A a, b \in DOMAIN heap :
              (Siblings(a, b) /\ NavPos(els, a) < NavPos(els, b)) =>
                  \/ heap[a].order < heap[b].order
                  \/ heap[a].order = heap[b].order /\ a < b

\* The order key alone: siblings are written in ascending order of the key.
SiblingsAscending ==
    ret.op \in Serializers =>
        LET els == NavElements(Navigation(ret.buf))
        IN  \A a, b \in DOMAIN heap :
              (Siblings(a, b) /\ NavPos(els, a) < NavPos(els, b)) =>
                  heap[a].order <= heap[b].order

AlreadySet(op) ==
    IF op = "SetSeries" THEN "series name already set" ELSE "set name already set"

C9_SeriesOrSet == ~(e.seriesName # "" /\ e.setName # "")

(***************************************************************************)
(* The entry number as the documentation words it.                         *)
(***************************************************************************)
\* n without the white space around it: the piece n[i..j] that has only
\* white space before and after it and none at either end.
Trimmed(n) ==
    LET ink == { k \in 1..Len(n) : n[k] \notin {" ", "\t", "\n"} }
    IN  IF ink = {} THEN <<>>
        ELSE SubSeq(n, CHOOSE k \in ink : \A m \in ink : k <= m,
                       CHOOSE k \in ink : \A m \in ink : m <= k)

DecimalDigits == {"0", "1", "2", "3", "4", "5", "6", "7", "8", "9"}

\* One or more groups of decimal digits separated by single dots.
DottedDecimal(t) ==
    /\ Len(t) >= 1
    /\ \A k \in 1..Len(t) : t[k] \in DecimalDigits \cup {"."}
    /\ t[1] # "." /\ t[Len(t)] # "."
    /\ \A k \in 1..(Len(t) - 1) : ~(t[k] = "." /\ t[k + 1] = ".")

\* C10: SetEntryNumber(n) succeeds exactly when n without its surrounding
\* white space is a dotted decimal number, and then stores that trimmed
\* value; for every other n it returns the format error and leaves the
\* stored entry number as it was.
C10_EntryNumber ==
    [][ ret'.op = "SetEntryNumber" =>
          LET t == Trimmed(ret'.args[1])
          IN  IF DottedDecimal(t)
              THEN ret'.err = "" /\ e'.entry = t
              ELSE /\ ret'.err = "entry number must match the pattern \\d+(\\.\\d+)*"
                   /\ e'.entry = e.entry ]_vars

\* " 7." is refused after "7.7" was stored, and "7.7" is still stored.
C10_Witness ==
    /\ ret.op = "SetEntryNumber"
    /\ ret.args[1] = <<" ", "7", ".">>
    /\ ret.err # ""
    /\ e.entry = <<"7", ".", "7">>


(***************************************************************************)
(* The metadata registry and its two renderings.                           *)
(***************************************************************************)
RoleKinds == {"dc:creator", "dc:contributor"}

\* The registry entries that carry a role.
RoleEntries == { i \in 1..Len(e.metadata) : e.metadata[i].kind \in RoleKinds }

\* Element k of a v2 metadata block renders registry entry m.
RendersV2(md, k, m) ==
    /\ md[k].tag = m.kind
    /\ md[k].text = m.value
    /\ \E a \in 1..Len(md[k].attrs) :
          /\ md[k].attrs[a].name = "opf:role"
          /\ md[k].attrs[a].value = m.pairs[1].value

\* Element k of a v3 metadata block renders registry entry m: the element
\* and the meta element that refines it with the role.
RendersV3(md, k, m) ==
    /\ md[k].tag = m.kind
    /\ md[k].text = m.value
    /\ md[k].id # ""
    /\ \E j \in 1..Len(md) :
          /\ md[j].tag = "meta"
          /\ md[j].refines = "#" \o md[k].id
          /\ md[j].property = "role"
          /\ md[j].text = m.pairs[1].value

\* Every role entry of the registry has its element in the metadata block of
\* the archive just written, and the block has no other role elements.
RolesRendered ==
    ret.op \in Serializers =>
        LET md == Package(ret.buf).metadata
        IN  /\ \A i \in RoleEntries :
                  \E k \in 1..Len(md) :
                      IF ret.op = "SerializeV2" THEN RendersV2(md, k, e.metadata[i])
                      ELSE RendersV3(md, k, e.metadata[i])
            /\ Cardinality({ k \in 1..Len(md) : md[k].tag \in RoleKinds })
                  = Cardinality(RoleEntries)

\* C11: AddCreator and AddContributor with a role outside the relator table
\* return the invalid-role error and leave the registry as it was; with a
\* role of the table they append one entry (dc:creator, dc:contributor) with
\* that name and role, and both serializers render every such entry.
C11_Roles ==
    [][ /\ ret'.op \in {"AddCreator", "AddContributor"} =>
              LET name == ret'.args[1]
                  role == ret'.args[2]
                  n    == Len(e.metadata)
              IN  IF role \notin validRoles
                  THEN /\ ret'.err = "invalid role " \o role
                       /\ e'.metadata = e.metadata
                  ELSE /\ ret'.err = ""
                       /\ Len(e'.metadata) = n + 1
                       /\ SubSeq(e'.metadata, 1, n) = e.metadata
                       /\ e'.metadata[n + 1].kind =
                             (IF ret'.op = "AddCreator" THEN "dc:creator"
                              ELSE "dc:contributor")
                       /\ e'.metadata[n + 1].value = name
                       /\ e'.metadata[n + 1].pairs[1].key = "role"
                       /\ e'.metadata[n + 1].pairs[1].value = role
        /\ RolesRendered' ]_vars

\* A contributor with an unknown role is refused while the registry holds a
\* creator.
C11_Witness ==
    /\ ret.op = "AddContributor"
    /\ ret.args[2] = "xyz"
    /\ ret.err = "invalid role xyz"
    /\ \E i \in RoleEntries : e.metadata[i].kind = "dc:creator"


(***************************************************************************)
(* The identifiers of the resources.                                       *)
(***************************************************************************)
\* The class of identifiers and the collection of each Add call.
AddClass ==
    [ AddImage |-> "img", AddXHTML |-> "xhtml", AddStylesheet |-> "css",
      AddJavaScript |-> "js", AddFont |-> "font" ]

Collection(ep, class) ==
    CASE class = "img"   -> ep.images
      [] class = "xhtml" -> ep.xhtml
      [] class = "css"   -> ep.styles
      [] class = "js"    -> ep.scripts
      [] class = "font"  -> ep.fonts

Classes == {"img", "xhtml", "css", "js", "font"}

IdsOf(rs) == { rs[i].id : i \in 1..Len(rs) }

\* C12: the k-th identifier allocated for a class is the class name
\* followed by k, so the identifiers of a class are pairwise distinct, and
\* the identifiers of the five classes and the manifest id "ncx" never
\* coincide.
C12_Identifiers ==
    /\ \A c \in Classes :
          LET rs == Collection(e, c)
          IN  /\ IdsOf(rs) = { c \o ToString(k) : k \in 1..Len(rs) }
              /\ c # "xhtml" => \A k \in 1..Len(rs) : rs[k].id = c \o ToString(k)
    /\ (ret.op \in DOMAIN AddClass /\ ret.err = "") =>
          ret.id = AddClass[ret.op]
                      \o ToString(Len(Collection(e, AddClass[ret.op])))
    /\ Cardinality({"ncx"} \cup UNION { IdsOf(Collection(e, c)) : c \in Classes })
          = 1 + Records(e)
    /\ ret.op \in Serializers =>
          LET items == Package(ret.buf).manifest
          IN  /\ Len(items) = 1 + Records(e)
              /\ \A i, j \in 1..Len(items) :
                    i # j => items[i].id # items[j].id

\* The second stylesheet is css2 while an image holds img1.
C12_Witness ==
    /\ ret.op = "AddStylesheet"
    /\ ret.id = "css2"
    /\ Len(e.styles) = 2
    /\ Len(e.images) = 1


\* C20: a successful AddImage, AddStylesheet, AddJavaScript, AddFont or
\* AddXHTML appends one record to its own collection and leaves the records
\* already there, the other collections, the metadata registry and the
\* navigation tree as they were; a call fails only for its own arguments,
\* never for a path that is already there.
C20_AppendOnly ==
    [][ ret'.op \in DOMAIN AddClass =>
          LET c   == AddClass[ret'.op]
              old == Collection(e, c)
              new == Collection(e', c)
          IN  /\ ret'.err # "" <=>
                    \/ ret'.op = "AddImage" /\ ret'.args[2] # "PNG-bytes"
                    \/ ret'.op = "AddFont"
                          /\ ret'.args[1][Len(ret'.args[1])] # ".otf"
                    \/ ret'.op = "AddXHTML" /\ Len(ret'.args[3]) > 1
              /\ ret'.err = "" =>
                    /\ Len(new) = Len(old) + 1
                    /\ SubSeq(new, 1, Len(old)) = old
                    /\ new[Len(new)].name = ret'.args[1]
                    /\ new[Len(new)].contents = ret'.args[2]
                    /\ new[Len(new)].id = ret'.id
                    /\ \A d \in Classes \ {c} : Collection(e', d) = Collection(e, d)
                    /\ e'.metadata = e.metadata
                    /\ e'.navpoints = e.navpoints
                    /\ heap' = heap ]_vars

\* Two stylesheets of one path are both kept, next to a navpoint.
C20_Witness ==
    /\ ret.op = "AddStylesheet"
    /\ ret.err = ""
    /\ Len(e.styles) = 2
    /\ e.styles[1].name = e.styles[2].name
    /\ e.styles[1].contents # e.styles[2].contents
    /\ Len(e.navpoints) = 1

\* C16: AddXHTML with more than one order value returns the too-many error,
\* adds no text document and allocates no identifier; with no order value
\* it records the order 0, with one value that value.
C16_OrderArgument ==
    [][ ret'.op = "AddXHTML" =>
          LET order == ret'.args[3]
              n     == Len(e.xhtml)
          IN  IF Len(order) > 1
              THEN /\ ret'.err = "Too many order parameters given"
                   /\ ret'.id = ""
                   /\ e'.xhtml = e.xhtml
                   /\ e'.lastId = e.lastId
              ELSE /\ ret'.err = ""
                   /\ Len(e'.xhtml) = n + 1
                   /\ SubSeq(e'.xhtml, 1, n) = e.xhtml
                   /\ e'.xhtml[n + 1].id = ret'.id
                   /\ e'.xhtml[n + 1].order =
                         (IF Len(order) = 0 THEN 0 ELSE order[1]) ]_vars

\* A call with two order values is refused after a document was added, and
\* the next identifier is still xhtml2.
C16_Witness ==
    /\ ret.op = "AddXHTML"
    /\ Len(ret.args[3]) = 2
    /\ ret.err # ""
    /\ Len(e.xhtml) = 1
    /\ e.lastId["xhtml"] = 1


(***************************************************************************)
(* The book identifier.                                                    *)
(***************************************************************************)
\* The texts of the dc:identifier elements of a metadata block.
Identifiers(md) == { md[k].text : k \in { j \in 1..Len(md) : md[j].tag = "dc:identifier" } }

\* The v2 navigation file of an archive.
Ncx(buf) ==
    buf[CHOOSE i \in 1..Len(buf) : buf[i].name = <<"OPS/", "toc.ncx">>].body

\* C13: every serialization renders the identifier the book holds, which is
\* urn:uuid:u after a successful SetUUID(u): the dc:identifier of the
\* package metadata (v2 and v3) and the dtb:uid of the v2 navigation file
\* equal it and so agree with each other.
C13_UUIDOverride ==
    ret.op \in Serializers =>
        /\ Identifiers(Package(ret.buf).metadata) = {e.uuid}
        /\ ret.op = "SerializeV2" => Ncx(ret.buf).uid = e.uuid

\* C14: UUID() returns the UUID the book holds, the generated one after
\* New() and u after a successful SetUUID(u), without the urn:uuid: prefix.
C14_UUID ==
    ret.op = "UUID" => "urn:uuid:" \o ret.id = e.uuid

(***************************************************************************)
(* The modification timestamp of a v3 package description.                 *)
(***************************************************************************)
\* The elements of a v3 metadata block that state dcterms:modified: the
\* rendering of a registry entry of that kind, and the synthesized meta
\* element of src/v3.go:232.
Rendered(md) == { k \in 1..Len(md) : md[k].tag = "dcterms:modified" }

Synthesized(md) ==
    { k \in 1..Len(md) : /\ md[k].tag = "meta"
                         /\ md[k].property = "dcterms:modified"
                         /\ md[k].refines = ""
                         /\ md[k].text \in Clock }

\* C17: every v3 package description has exactly one dcterms:modified
\* statement: it is synthesized when the registry holds none, and none is
\* synthesized for a registry that holds one.  No call puts such an entry
\* into the registry, so the second case is stated for the registry with
\* one added by hand.
C17_OneTimestamp ==
    ret.op = "SerializeV3" =>
        LET md   == Package(ret.buf).metadata
            held == { i \in 1..Len(e.metadata) :
                        e.metadata[i].kind = "dcterms:modified" }
            with == [e EXCEPT !.metadata =
                        Append(@, [ kind  |-> "dcterms:modified",
                                    value |-> "2018-08-01T10:00:00Z",
                                    pairs |-> <<>> ])]
        IN  /\ Cardinality(Rendered(md) \cup Synthesized(md)) = 1
            /\ held = {} => Cardinality(Synthesized(md)) = 1
            /\ held # {} => Synthesized(md) = {}
            /\ \A now \in Clock :
                  /\ Cardinality(Rendered(addV3Metadata(with, now))) = 1
                  /\ Synthesized(addV3Metadata(with, now)) = {}

\* A v3 package description of a book with a title and a creator.
C17_Witness ==
    /\ ret.op = "SerializeV3"
    /\ Len(e.metadata) = 3
    /\ Cardinality(Synthesized(Package(ret.buf).metadata)) = 1
    /\ \E i \in 1..Len(e.metadata) : e.metadata[i].kind = "dc:title"


(***************************************************************************)
(* The schema version.                                                     *)
(***************************************************************************)
\* The archive is the one the v2 writer, the v3 writer makes.
WrittenBy(buf) ==
    IF \E i \in 1..Len(buf) : buf[i].name = <<"OPS/", "content.opf">> THEN 2
    ELSE IF \E i \in 1..Len(buf) : buf[i].name = <<"OPS/", "book.opf">> THEN 3
    ELSE 0

\* C15: the version is 2 after New() and 2 or 3 ever after; SetVersion(v)
\* with v outside {2, 3} returns the unsupported-version error and leaves
\* the version as it was; Write runs the v2 writer for version 2 and the v3
\* writer for version 3, never its unsupported-version branch.
C15_Version ==
    [][ /\ ret.op = "New" => e.version = 2
        /\ e'.version \in {2, 3}
        /\ ret'.op = "SetVersion" =>
              IF ret'.args[1] \in {2, 3}
              THEN ret'.err = "" /\ e'.version = ret'.args[1]
              ELSE /\ ret'.err = "EPub version " \o ToString(ret'.args[1])
                                    \o " is unsupported"
                   /\ e'.version = e.version
        /\ ret'.op = "Write" =>
              /\ WrittenBy(ret'.buf) = e.version
              /\ ret'.err \in WriteFileErrors ]_vars

\* Version 4 is refused for a book set to version 3.
C15_Witness ==
    /\ ret.op = "SetVersion"
    /\ ret.args[1] = 4
    /\ ret.err # ""
    /\ e.version = 3


(***************************************************************************)
(* The order of the calls.  What was added is taken as a set, which keeps  *)
(* nothing of the order of the calls: the text documents as pairs of path  *)
(* and order, the table of contents as a tree of sets without pointers.    *)
(***************************************************************************)
DocSet == { <<e.xhtml[i].name, e.xhtml[i].order>> : i \in 1..Len(e.xhtml) }

\* The elements of a finite set S in ascending order of key, a function on
\* S with pairwise distinct values.
Ascending(S, key) ==
    CHOOSE s \in [1..Cardinality(S) -> S] :
        \A i, j \in 1..Cardinality(S) : i < j => key[s[i]] < key[s[j]]

DocKey == [d \in DocSet |-> d[2]]

\* The paths of the spine of an archive: each itemref through its manifest
\* item.
SpinePaths(buf) ==
    LET p == Package(buf)
    IN  [i \in 1..Len(p.spine) |->
           p.manifest[CHOOSE k \in 1..Len(p.manifest) :
                          p.manifest[k].id = p.spine[i]].href]

RECURSIVE Tree(_)
Tree(np) ==
    { [ label |-> heap[n].label, filename |-> heap[n].filename,
        order |-> heap[n].order, kids |-> Tree(heap[n].navpoints) ] :
      n \in Range(np) }

NodeKey(T) == [t \in T |-> t.order]

\* The v2 navMap of a tree of sets.
RECURSIVE TocV2(_, _, _, _, _)
TocV2(i, s, order, baseID, prefix) ==
    IF i > Len(s) THEN [w |-> <<>>, order |-> order]
    ELSE LET id   == baseID \o "_" \o ToString(i - 1)
             sub  == TocV2(1, Ascending(s[i].kids, NodeKey(s[i].kids)), order + 1, id,
                           prefix \o "  ")
             rest == TocV2(i + 1, s, sub.order, baseID, prefix)
         IN  [ w |-> << [ tag |-> "navPoint", id |-> id, playOrder |-> order,
                          prefix |-> prefix, label |-> s[i].label,
                          src |-> s[i].filename ] >>
                     \o sub.w
                     \o << [tag |-> "/navPoint", prefix |-> prefix] >>
                     \o rest.w,
               order |-> rest.order ]

\* The v3 nav list of a tree of sets.
RECURSIVE TocV3(_, _)
TocV3(T, prefix) ==
    LET s == Ascending(T, NodeKey(T))
    IN  << [tag |-> "ol", prefix |-> prefix] >>
        \o Flatten([i \in 1..Len(s) |->
              << [tag |-> "li", prefix |-> prefix],
                 [ tag |-> "a", prefix |-> prefix, href |-> s[i].filename,
                   label |-> s[i].label ] >>
              \o (IF s[i].kids # {} THEN TocV3(s[i].kids, prefix \o "  ") ELSE <<>>)
              \o << [tag |-> "/li", prefix |-> prefix] >>])
        \o << [tag |-> "/ol", prefix |-> prefix] >>

\* What is written for the navpoints, without the pointers the model keeps
\* with the elements.
Plain(w) ==
    [k \in 1..Len(w) |-> [f \in DOMAIN w[k] \ {"node"} |-> w[k][f]]]

DistinctDocOrders ==
    \A i, j \in 1..Len(e.xhtml) : i # j => e.xhtml[i].order # e.xhtml[j].order

DistinctNavOrders ==
    \A l \in SiblingLists :
        \A i, j \in 1..Len(l) : i # j => heap[l[i]].order # heap[l[j]].order

\* C18: the order of the calls does not matter.  For text documents with
\* pairwise distinct orders the paths of the spine are those of the set of
\* documents in ascending order; for navpoints with pairwise distinct orders
\* under each parent the table of contents is the one of the tree of sets.
C18_CallOrder ==
    ret.op \in Serializers =>
        /\ DistinctDocOrders =>
              LET s == Ascending(DocSet, DocKey)
              IN  SpinePaths(ret.buf) = [i \in 1..Len(s) |-> s[i][1]]
        /\ DistinctNavOrders =>
              Plain(Navigation(ret.buf)) =
                  IF ret.op = "SerializeV2"
                  THEN TocV2(1, Ascending(Tree(e.navpoints), NodeKey(Tree(e.navpoints))), 1,
                             "navpointid", "    ").w
                  ELSE TocV3(Tree(e.navpoints), "    ")

\* The second document added comes first in the spine, and the navpoint of
\* the book was added before both.
C18_Witness ==
    /\ ret.op \in Serializers
    /\ Len(e.xhtml) = 2
    /\ \E i, j \in 1..2 :
          /\ e.xhtml[i].id = "xhtml1" /\ e.xhtml[j].id = "xhtml2"
          /\ e.xhtml[i].order > e.xhtml[j].order
          /\ e.xhtml[i].name # e.xhtml[j].name
          /\ SpinePaths(ret.buf) = <<e.xhtml[j].name, e.xhtml[i].name>>
    /\ Len(e.navpoints) = 1


(***************************************************************************)
(* Series, set and entry number in the v2 archive.                         *)
(***************************************************************************)
\* The Document without series name, set name and entry number.
Bare(ep) == [ep EXCEPT !.seriesName = "", !.setName = "", !.entry = <<>>]

\* C19: series, set and entry number are not written for v2 books: the v2
\* archive of a Document is the v2 archive of the Document without them, so
\* two Documents that differ in nothing else have the same v2 package
\* description, navigation file and container pointer.
C19_NotInV2 ==
    [][ ret'.op = "SerializeV2" =>
          ret'.buf \in { ArchiveV2(Bare(e), sp, nv) :
                           sp \in addSpine(Bare(e)),
                           nv \in SortNavpoints(e.navpoints, heap) } ]_vars

\* A v2 archive of a book in a series with an entry number.
C19_Witness ==
    /\ ret.op = "SerializeV2"
    /\ e.seriesName # ""
    /\ e.entry # <<>>
    /\ Len(e.xhtml) > 0


(***************************************************************************)
(* The anchors and the refinements of the v3 metadata block.               *)
(***************************************************************************)
Unanchored == {"meta", "dc:identifier"}

\* The registry entries the v3 writer gives an anchor, and the elements of
\* a metadata block that render them.
Anchored == { i \in 1..Len(e.metadata) : e.metadata[i].kind \notin Unanchored }

AnchoredElements(md) == { k \in 1..Len(md) : md[k].tag \notin Unanchored }

Refinements(md) == { k \in 1..Len(md) : md[k].refines # "" }

\* The element of entry i: the entries are rendered in registry order.
ElementOf(md, i) ==
    CHOOSE k \in AnchoredElements(md) :
        Cardinality({ k2 \in AnchoredElements(md) : k2 < k })
            = Cardinality({ i2 \in Anchored : i2 < i })

\* C21: in the v3 metadata block every registry entry other than the
\* identifier and the "meta" entries has its own element with an anchor id,
\* the anchors of distinct entries differ, the qualifier pairs of an entry
\* are the refinements that follow its element and refer to its anchor, and
\* every refinement refers to an anchor the block declares.
C21_Anchors ==
    ret.op = "SerializeV3" =>
        LET md == Package(ret.buf).metadata
        IN  /\ Cardinality(AnchoredElements(md)) = Cardinality(Anchored)
            /\ \A i \in Anchored :
                  LET k == ElementOf(md, i)
                      m == e.metadata[i]
                  IN  /\ md[k].tag = m.kind
                      /\ md[k].text = m.value
                      /\ md[k].id # ""
                      /\ \A j \in Anchored : j # i => md[ElementOf(md, j)].id # md[k].id
                      /\ \A p \in 1..Len(m.pairs) :
                            /\ k + p <= Len(md)
                            /\ md[k + p].tag = "meta"
                            /\ md[k + p].refines = "#" \o md[k].id
                            /\ md[k + p].property = m.pairs[p].v3prefix \o m.pairs[p].key
                            /\ md[k + p].text = m.pairs[p].value
            /\ \A r \in Refinements(md) :
                  /\ \E k \in 1..Len(md) : md[k].id # "" /\ md[r].refines = "#" \o md[k].id
                  /\ \E i \in Anchored : \E p \in 1..Len(e.metadata[i].pairs) :
                        r = ElementOf(md, i) + p

\* A v3 package description of a book with two entries that carry a role
\* and so two anchors and two refinements.
C21_Witness ==
    /\ ret.op = "SerializeV3"
    /\ Cardinality(Anchored) = 2
    /\ Cardinality(Refinements(Package(ret.buf).metadata)) = 2


(***************************************************************************)
(* The cover image in the v3 manifest.                                     *)
(***************************************************************************)
\* The arguments of the SetCoverImage calls so far, as the registry keeps
\* them: each call appends one "meta" entry whose second pair is the id.
CoverCalls ==
    LET ix == { i \in 1..Len(e.metadata) : e.metadata[i].kind = "meta" }
    IN  [ k \in 1..Cardinality(ix) |->
            e.metadata[CHOOSE i \in ix :
                          Cardinality({ j \in ix : j <= i }) = k].pairs[2].value ]

ImageIds == { e.images[i].id : i \in 1..Len(e.images) }

\* C22: in the v3 manifest at most one item carries the cover-image
\* property, an image item carries it exactly when its id is the argument
\* of the most recent SetCoverImage call, no other item carries it, and the
\* navigation document is the one item with the nav property.
C22_Cover ==
    ret.op = "SerializeV3" =>
        LET mf     == Package(ret.buf).manifest
            covers == { k \in 1..Len(mf) : mf[k].properties = "cover-image" }
            navs   == { k \in 1..Len(mf) : mf[k].properties = "nav" }
        IN  /\ Cardinality(covers) <= 1
            /\ \A k \in 1..Len(mf) :
                  k \in covers <=>
                      /\ mf[k].id \in ImageIds
                      /\ CoverCalls # <<>>
                      /\ mf[k].id = CoverCalls[Len(CoverCalls)]
            /\ Cardinality(navs) = 1
            /\ \A k \in navs : mf[k].href = <<"__toc.xhtml">>

\* A v3 manifest of two images after the cover was set to the first and
\* then to the second.
C22_Witness ==
    /\ ret.op = "SerializeV3"
    /\ Len(e.images) = 2
    /\ CoverCalls = <<"img1", "img2">>
    /\ \E k \in 1..Len(Package(ret.buf).manifest) :
          /\ Package(ret.buf).manifest[k].properties = "cover-image"
          /\ Package(ret.buf).manifest[k].id = "img2"


(***************************************************************************)
(* The manifest and the spine of one package description.                  *)
(***************************************************************************)
\* The resource records of the five collections.
ResourceRecords(ep) ==
    UNION { Range(Collection(ep, c)) : c \in Classes }

NavigationHrefs == { <<"toc.ncx">>, <<"__toc.xhtml">> }

\* C23: the manifest of either version has exactly one item per resource
\* record of the five collections, with the record's id and path, and
\* exactly one navigation item; its item ids are pairwise distinct; every
\* itemref of the spine names an item of that manifest.
C23_Manifest ==
    ret.op \in Serializers =>
        LET pkg   == Package(ret.buf)
            mf    == pkg.manifest
            navs  == { k \in 1..Len(mf) : mf[k].href \in NavigationHrefs }
        IN  /\ Len(mf) = Records(e) + 1
            /\ \A r \in ResourceRecords(e) :
                  Cardinality({ k \in 1..Len(mf) :
                                  mf[k].id = r.id /\ mf[k].href = r.name }) = 1
            /\ Cardinality(navs) = 1
            /\ \A k \in navs : mf[k].id = "ncx"
            /\ \A j, k \in 1..Len(mf) : j # k => mf[j].id # mf[k].id
            /\ \A s \in 1..Len(pkg.spine) :
                  \E k \in 1..Len(mf) : mf[k].id = pkg.spine[s]

\* A package description of a book with two text documents and a font.
C23_Witness ==
    /\ ret.op \in Serializers
    /\ Len(e.xhtml) = 2
    /\ Len(e.fonts) = 1
    /\ Len(Package(ret.buf).spine) = 2
    /\ Len(Package(ret.buf).manifest) = 4


(***************************************************************************)
(* The collection-membership block of the v3 metadata.                     *)
(***************************************************************************)
WithProperty(md, p) == { k \in 1..Len(md) : md[k].property = p }

\* Element k states membership in the collection name of type type: the
\* belongs-to-collection element and the collection-type element refining
\* it.
Membership(md, k, name, type) ==
    /\ md[k].property = "belongs-to-collection"
    /\ md[k].text = name
    /\ md[k].id # ""
    /\ k < Len(md)
    /\ md[k + 1].property = "collection-type"
    /\ md[k + 1].text = type
    /\ md[k + 1].refines = "#" \o md[k].id

\* C24: the v3 metadata holds the collection block exactly when the series
\* name or the set name is non-empty: one belongs-to-collection statement
\* per non-empty name, all with the same anchor, and a group-position
\* statement exactly when an entry number is set and one of the names is
\* non-empty, so that it refers to an anchor the block declares.
C24_CollectionBlock ==
    ret.op = "SerializeV3" =>
        LET md      == Package(ret.buf).metadata
            belongs == WithProperty(md, "belongs-to-collection")
            types   == WithProperty(md, "collection-type")
            pos     == WithProperty(md, "group-position")
            named   == e.seriesName # "" \/ e.setName # ""
        IN  /\ (belongs \cup types \cup pos # {}) <=> named
            /\ Cardinality(belongs) =
                  (IF e.seriesName # "" THEN 1 ELSE 0)
                  + (IF e.setName # "" THEN 1 ELSE 0)
            /\ Cardinality(types) = Cardinality(belongs)
            /\ e.seriesName # "" =>
                  \E k \in belongs : Membership(md, k, e.seriesName, "series")
            /\ e.setName # "" =>
                  \E k \in belongs : Membership(md, k, e.setName, "set")
            /\ \A j, k \in belongs : md[j].id = md[k].id
            /\ (pos # {}) <=> (e.entry # <<>> /\ named)
            /\ Cardinality(pos) <= 1
            /\ \A k \in pos :
                  /\ md[k].text = e.entry
                  /\ \E j \in belongs : md[k].refines = "#" \o md[j].id

\* A v3 package description of a book in a series and in a set, with an
\* entry number.
C24_Witness ==
    /\ ret.op = "SerializeV3"
    /\ e.seriesName # ""
    /\ e.setName # ""
    /\ e.entry = <<"7", ".", "7">>
    /\ Cardinality(WithProperty(Package(ret.buf).metadata, "group-position")) = 1

\* A v3 package description of a book with an entry number and neither a
\* series nor a set: no collection block.
C24_WitnessUnnamed ==
    /\ ret.op = "SerializeV3"
    /\ e.seriesName = ""
    /\ e.setName = ""
    /\ e.entry # <<>>


(***************************************************************************)
(* The two serializers on one Document.                                    *)
(***************************************************************************)
\* The resource items of a manifest, in its order: id, path, media type.
ResourceItems(mf) ==
    LET IsResource(it) == it.id # "ncx"
        rs == SelectSeq(mf, IsResource)
    IN  [k \in 1..Len(rs) |->
           [id |-> rs[k].id, href |-> rs[k].href, mediaType |-> rs[k].mediaType]]

\* The Navpoints of a navigation file in the order of their elements.
NavNodes(w) ==
    LET els == NavElements(w)
    IN  [k \in 1..Len(els) |-> els[k].node]

\* The levels of a navigation file: for each element its prefix, which
\* grows by two blanks per level.
NavLevels(w) ==
    LET els == NavElements(w)
    IN  [k \in 1..Len(els) |-> els[k].prefix]

\* C25: on every Document the v2 and the v3 serializer write the same
\* spine, the same resource items (id, path, media type) in the same
\* order, and the navpoints in the same order at every level.  sort.Slice
\* is one function of its input, so both writers are given the same
\* outcome of the sort of the navpoints.
C25_Agree ==
    /\ \A sp2 \in addSpine(e) : \A sp3 \in addV3Spine(e) : sp2.spine = sp3.spine
    /\ ResourceItems(addManifest(e)) = ResourceItems(addV3Manifest(e))
    /\ \A nv \in SortNavpoints(e.navpoints, heap) :
          LET v2 == writeNavpoints(nv.navpoints, 1, "navpointid", "    ", nv.heap).w
              v3 == writeV3Navpoints(nv.navpoints, "    ", nv.heap)
          IN  /\ NavNodes(v2) = NavNodes(v3)
              /\ \A j, k \in 1..Len(NavNodes(v2)) :
                    (NavLevels(v2)[j] = NavLevels(v2)[k])
                        <=> (NavLevels(v3)[j] = NavLevels(v3)[k])

\* A Document that was serialized, whose second text document comes first
\* in the spine and which has a navpoint.
C25_Witness ==
    /\ ret.op \in Serializers
    /\ Len(e.xhtml) = 2
    /\ Package(ret.buf).spine = <<"xhtml2", "xhtml1">>
    /\ Len(e.navpoints) = 1

\* A Document whose two root navpoints have the same order, the first with
\* a child.
C25_WitnessNested ==
    /\ ret.op \in Serializers
    /\ Len(e.navpoints) = 2
    /\ Len(heap) = 3
    /\ heap[e.navpoints[1]].order = heap[e.navpoints[2]].order


(***************************************************************************)
(* Registrations that fail.                                                *)
(***************************************************************************)
FileOps ==
    { "AddImageFile", "AddJavaScriptFile", "AddFontFile", "AddXHTMLFile",
      "AddStylesheetFile" }

\* The class of identifiers of each registration call.
RegistrationClass ==
    [ AddImage |-> "img", AddXHTML |-> "xhtml", AddStylesheet |-> "css",
      AddJavaScript |-> "js", AddFont |-> "font",
      AddImageFile |-> "img", AddXHTMLFile |-> "xhtml",
      AddStylesheetFile |-> "css", AddJavaScriptFile |-> "js",
      AddFontFile |-> "font" ]

\* The calls the claim says fail, by their arguments.
MustFail(op, args) ==
    \/ op = "AddFont" /\ ~HasSuffix(args[1], ".otf")
    \/ op = "AddImage" /\ DecodeConfig(args[2]).err # ""
    \/ op \in FileOps /\ args[1] \notin DOMAIN Disk

\* C26: AddFont with a path that does not end in ".otf", AddImage with
\* contents that are no image and every *File call on a source that cannot
\* be read return an error; a registration that returns an error returns
\* no Id and leaves the Document, its counters included, as it was; a
\* registration that succeeds gets the class name followed by the number
\* of records of the class plus one, whatever calls failed before it.
C26_FailedRegistration ==
    [][ LET op   == ret'.op
            args == ret'.args
        IN  /\ MustFail(op, args) => ret'.err # ""
            /\ (op \in DOMAIN RegistrationClass /\ ret'.err # "") =>
                  /\ e' = e
                  /\ heap' = heap
                  /\ ret'.id = ""
            /\ (op \in DOMAIN RegistrationClass /\ ret'.err = "") =>
                  LET class == RegistrationClass[op]
                      n     == Len(Collection(e, class))
                  IN  /\ ret'.id = class \o ToString(n + 1)
                      /\ Len(Collection(e', class)) = n + 1 ]_vars

\* AddFontFile has failed on a Document that holds one font, font1, and
\* the counter of the fonts is still 1.
C26_Witness ==
    /\ ret.op = "AddFontFile"
    /\ ret.err # ""
    /\ Len(e.fonts) = 1
    /\ e.lastId["font"] = 1

\* AddImage has failed on contents that are no image.
C26_WitnessImage ==
    /\ ret.op = "AddImage"
    /\ ret.err # ""
    /\ Len(e.images) = 1
    /\ e.lastId["img"] = 1

\* A *File call has failed after ReadFile, in the Add call of its class.
C26_WitnessLate ==
    /\ ret.op \in {"AddImageFile", "AddFontFile"}
    /\ ret.err # ""
    /\ ret.args[1] \in DOMAIN Disk


(***************************************************************************)
(* The title, the authors and the artists, and the registry.               *)
(***************************************************************************)
\* The values of the dc:creator entries with role r, in registry order.
CreatorValues(r) ==
    LET IsRole(m) == m.kind = "dc:creator" /\ m.pairs[1].value = r
        ms == SelectSeq(e.metadata, IsRole)
    IN  [k \in 1..Len(ms) |-> ms[k].value]

TitleValues ==
    LET IsTitle(m) == m.kind = "dc:title"
        ms == SelectSeq(e.metadata, IsTitle)
    IN  [k \in 1..Len(ms) |-> ms[k].value]

\* a is b with some of its elements left out.
IsSubsequence(a, b) ==
    \E f \in [1..Len(a) -> 1..Len(b)] :
        /\ \A i, j \in 1..Len(a) : i < j => f[i] < f[j]
        /\ \A i \in 1..Len(a) : b[f[i]] = a[i]

ViewsConsistent ==
    /\ IsSubsequence(e.authors, CreatorValues("aut"))
    /\ IsSubsequence(e.artists, CreatorValues("art"))
    /\ e.title = IF TitleValues = <<>> THEN ""
                 ELSE TitleValues[Len(TitleValues)]

\* The call has appended name to list and one dc:creator entry with that
\* name and role to the registry, and returned no error.
AppendedCreator(list, name, role) ==
    LET n == Len(e.metadata)
    IN  /\ ret'.err = ""
        /\ e'[list] = Append(e[list], name)
        /\ Len(e'.metadata) = n + 1
        /\ SubSeq(e'.metadata, 1, n) = e.metadata
        /\ e'.metadata[n + 1].kind = "dc:creator"
        /\ e'.metadata[n + 1].value = name
        /\ Len(e'.metadata[n + 1].pairs) = 1
        /\ e'.metadata[n + 1].pairs[1].key = "role"
        /\ e'.metadata[n + 1].pairs[1].value = role

\* C27: AddAuthor(n) and AddArtist(n) always succeed, append n to the list
\* of authors, of artists, and append exactly one dc:creator entry with
\* value n and role aut, art; after every call the authors are a
\* subsequence of the values of the aut creators, the artists one of the
\* art creators, and the title is the value of the last dc:title entry.
C27_Views ==
    [][ /\ ret'.op = "AddAuthor" =>
              /\ AppendedCreator("authors", ret'.args[1], "aut")
              /\ e'.artists = e.artists
        /\ ret'.op = "AddArtist" =>
              /\ AppendedCreator("artists", ret'.args[1], "art")
              /\ e'.authors = e.authors
        /\ ViewsConsistent' ]_vars

\* An author added after a creator with role aut.
C27_Witness ==
    /\ ret.op = "AddAuthor"
    /\ e.authors = <<"Ann">>
    /\ CreatorValues("aut") = <<"Bob", "Ann">>

\* An artist added to a new book.
C27_WitnessArtist ==
    /\ ret.op = "AddArtist"
    /\ e.artists = <<"Bob">>
    /\ CreatorValues("art") = <<"Bob">>

\* A book whose title was set twice.
C27_WitnessTitle ==
    /\ TitleValues = <<"Dune", "Emma">>
    /\ e.title = "Emma"


(***************************************************************************)
(* The navigation structure as a forest.                                   *)
(***************************************************************************)
\* How often node n stands in the sequence of pointers l.
Occurrences(l, n) == Cardinality({ i \in 1..Len(l) : l[i] = n })

\* The parents of node n: "e" for the Document, or the node in whose list
\* the pointer stands, once for each time it stands there.
ParentCount(n) ==
    Occurrences(e.navpoints, n)
    + Cardinality({ <<m, i>> \in (DOMAIN heap) \X (1..Len(heap)) :
                      i <= Len(heap[m].navpoints) /\ heap[m].navpoints[i] = n })

\* The nodes within k steps of the nodes S.
RECURSIVE Within(_, _)
Within(S, k) ==
    IF k = 0 THEN S
    ELSE Within(S \cup UNION { Range(heap[n].navpoints) : n \in S }, k - 1)

\* Every node has one parent and is reached from the Document: with
\* finitely many nodes this leaves no cycle.
Forest ==
    /\ \A n \in DOMAIN heap : ParentCount(n) = 1
    /\ Within(Range(e.navpoints), Len(heap)) = DOMAIN heap

\* The table of contents just written has one element for every node, and
\* in the v2 file the ids of the elements differ.
TocComplete ==
    ret.op \in Serializers =>
        LET els == NavElements(Navigation(ret.buf))
        IN  /\ Len(els) = Len(heap)
            /\ { els[i].node : i \in 1..Len(els) } = DOMAIN heap
            /\ ret.op = "SerializeV2" =>
                  \A i, j \in 1..Len(els) : i # j => els[i].id # els[j].id

\* C28: each AddNavpoint call, on the Document or on a node, makes one new
\* node and hangs it under its receiver alone; the nodes always form a
\* forest below the Document; each serializer's table of contents has
\* every node exactly once, the v2 file with pairwise distinct navPoint
\* ids.
C28_Forest ==
    /\ [][ ret'.op \in {"AddNavpoint", "Navpoint.AddNavpoint"} =>
              /\ DOMAIN heap' = DOMAIN heap \cup {ret'.np}
              /\ ret'.np \notin DOMAIN heap
              /\ \A n \in DOMAIN heap :
                    heap'[n].navpoints =
                        IF ret'.op = "Navpoint.AddNavpoint" /\ n = ret'.args[1]
                        THEN Append(heap[n].navpoints, ret'.np)
                        ELSE heap[n].navpoints
              /\ e'.navpoints =
                    IF ret'.op = "AddNavpoint" THEN Append(e.navpoints, ret'.np)
                    ELSE e.navpoints
              /\ heap'[ret'.np].navpoints = <<>> ]_vars
    /\ [](Forest /\ TocComplete)

\* A v2 table of contents of a root with a child and a second root.
C28_Witness ==
    /\ ret.op = "SerializeV2"
    /\ Len(heap) = 3
    /\ Len(e.navpoints) = 2
    /\ \E n \in DOMAIN heap : Len(heap[n].navpoints) = 1

\* A v3 table of contents of a chain of three nodes.
C28_WitnessChain ==
    /\ ret.op = "SerializeV3"
    /\ Len(heap) = 3
    /\ Len(e.navpoints) = 1
    /\ \A n \in DOMAIN heap : Len(heap[n].navpoints) <= 1


(***************************************************************************)
(* Failures while the archive is written.                                  *)
(***************************************************************************)
\* The entries a serializer creates and writes to, in its order: the
\* media type, the resources, the generated entries.
Generated(name) == [name |-> name, body |-> "generated"]

Attempted(op) ==
    IF op = "SerializeV2"
    THEN << Generated(<<"mimetype">>) >> \o ResourcesV2(e)
         \o << Generated(<<"OPS/", "content.opf">>),
                Generated(<<"OPS/", "toc.ncx">>),
                Generated(<<"META-INF/", "container.xml">>) >>
    ELSE << Generated(<<"mimetype">>) >> \o ResourcesV3(e)
         \o << Generated(<<"OPS/", "__toc.xhtml">>),
                Generated(<<"META-INF/", "container.xml">>),
                Generated(<<"OPS/", "book.opf">>) >>

EntryFails(entry) ==
    \/ CreateError(entry.name) # ""
    \/ WriteError(entry.name, entry.body) # ""

\* C29: when the creation of an entry or the write to an entry fails, the
\* serializer returns an error and no bytes; when none fails it returns
\* the archive with all its entries and no error.
C29_NoSwallowedFailure ==
    [][ ret'.op \in Serializers =>
          LET entries == Attempted(ret'.op)
          IN  IF \E i \in 1..Len(entries) : EntryFails(entries[i])
              THEN /\ ret'.err # ""
                   /\ ret'.buf = <<>>
              ELSE /\ ret'.err = ""
                   /\ [i \in 1..Len(ret'.buf) |-> ret'.buf[i].name]
                         = [i \in 1..Len(entries) |-> entries[i].name] ]_vars

\* The v3 serializer has returned the error of a write to a directory
\* entry.
C29_Witness ==
    /\ ret.op = "SerializeV3"
    /\ ret.err = "unable to write: zip: write to directory"
    /\ ret.buf = <<>>

\* The v2 serializer has returned the error of Create.
C29_WitnessCreate ==
    /\ ret.op = "SerializeV2"
    /\ ret.err = "zip: FileHeader.Name too long"
    /\ ret.buf = <<>>

\* An archive with an entry for a directory, to which nothing was written.
C29_WitnessEmptyDirectory ==
    /\ ret.op \in Serializers
    /\ ret.err = ""
    /\ \E i \in 1..Len(ret.buf) : HasSuffix(ret.buf[i].name, "/")


(***************************************************************************)
(* The fixer and the stored contents.                                      *)
(***************************************************************************)
\* The contents the Document holds for each text document, by identifier.
Stored(ep) == { <<ep.xhtml[i].id, ep.xhtml[i].contents>> : i \in 1..Len(ep.xhtml) }

\* The bodies of the entries an archive has for the text documents, which
\* follow the media type and the images in the order of e.xhtml.
XhtmlBodies(buf, ep) ==
    [i \in 1..Len(ep.xhtml) |-> buf[1 + Len(ep.images) + i].body]

\* C30: the fix flag is always set; no call changes the contents the
\* Document holds for a text document; the v3 serializer writes every text
\* document as the fixer leaves it, the v2 serializer writes every text
\* document as it is stored, whatever serializations came before.  No call
\* clears the flag, so the other half of "exactly when" is stated for the
\* Document with the flag cleared by hand: its text documents are written
\* as they are stored.
C30_FixerFrame ==
    [][ /\ e'.fixV2XHTML
        /\ LET off == [e EXCEPT !.fixV2XHTML = FALSE]
           IN  \A i \in 1..Len(e.xhtml) :
                   WriteXHTMLV3(off)[i].body = e.xhtml[i].contents
        /\ Stored(e) \subseteq Stored(e')
        /\ ret'.op \in Serializers => Stored(e') = Stored(e)
        /\ ret'.op = "SerializeV3" =>
              XhtmlBodies(ret'.buf, e) =
                  [i \in 1..Len(e.xhtml) |->
                     IF e.fixV2XHTML THEN fixV2XHTML(e.xhtml[i].contents)
                     ELSE e.xhtml[i].contents]
        /\ ret'.op = "SerializeV2" =>
              XhtmlBodies(ret'.buf, e) =
                  [i \in 1..Len(e.xhtml) |-> e.xhtml[i].contents] ]_vars

\* A v3 archive whose text document differs from the stored one, which
\* still has the v2 header.
C30_Witness ==
    /\ ret.op = "SerializeV3"
    /\ \E i \in 1..Len(e.xhtml) :
          /\ e.xhtml[i].contents = LegacyDoc
          /\ \E k \in 1..Len(e.xhtml) :
                XhtmlBodies(ret.buf, e)[k] =
                    <<XmlDecl, Newline, DoctypeV3, Newline, Markup>>

\* A v2 archive with the v2 header of the stored document.
C30_WitnessV2 ==
    /\ ret.op = "SerializeV2"
    /\ \E k \in 1..Len(e.xhtml) : XhtmlBodies(ret.buf, e)[k] = LegacyDoc

\* A v3 archive of a document with the v2 header below its first line,
\* which the fixer leaves alone.
C30_WitnessEmbedded ==
    /\ ret.op = "SerializeV3"
    /\ \E k \in 1..Len(e.xhtml) : XhtmlBodies(ret.buf, e)[k] = EmbeddedDoc

====
